---------------------------- MODULE Spec2Model ----------------------------
(***************************************************************************)
(* Backend API service of Growzilla Beta (src/unnamed/part_003): the       *)
(* transport call with its timeout timer (fetchWithTimeout), the request   *)
(* engine with its retry loop (ApiClient.request) and the cached health    *)
(* probe (ApiClient.checkHealth), as one state machine on the JavaScript   *)
(* event loop.  One action is one uninterrupted run of code between two    *)
(* awaits; the clock `now` is Date.now() in milliseconds.                  *)
(***************************************************************************)
EXTENDS Integers, Sequences, FiniteSets

(***************************************************************************)
(* Bounds of the model.                                                    *)
(***************************************************************************)
\* logical calls of request made on the client
NumCalls == 1
\* callers of checkHealth
NumCheckers == 2
\* the clock stops at MaxClock seconds while requests are followed, and at
\* MaxHealthClock seconds while the health cache is followed
MaxClock == 12
MaxHealthClock == 70
\* and at MaxResolveClock seconds while one call of resolveShopId is
\* followed, at MaxConcurrentClock seconds while two of them are
MaxResolveClock == 12
MaxConcurrentClock == 1
\* and at MaxClientClock seconds while a loader is followed
MaxClientClock == 12
\* seconds a followed call of request is followed
MaxPostClock == 48
\* the integers of up to this size are all formatted
MaxSmallNumber == 1200
\* calls of formatNumber with one argument
MaxFormatCalls == 2
\* seconds a page load is followed to its end: time for a probe and two
\* requests that run into every timeout
MaxLiveClock == 100

(***************************************************************************)
(* Configuration constants, part_003 lines 33-36.                          *)
(***************************************************************************)
REQUEST_TIMEOUT_MS == 10000
MAX_RETRIES == 3
RETRY_DELAYS == <<1000, 2000, 4000>>
HEALTH_CHECK_CACHE_MS == 60000

\* The logical calls of request, and two of them that overlap.
Calls == 1..NumCalls
ConcurrentCalls == {1, 2}
AllCalls == Calls \cup ConcurrentCalls
\* The callers of checkHealth; their numbers differ from those of Calls,
\* since both own timers.
Checkers == {100 + i : i \in 1..NumCheckers}
\* calls of resolveShopId
Resolvers == {1}
ConcurrentResolvers == {1, 2}
AllResolvers == Resolvers \cup ConcurrentResolvers
\* runs of a page loader
Loaders == {1}

(***************************************************************************)
(* Strings are sequences of one-character strings, so that                 *)
(* String.prototype.includes and the template literal of line 172 are      *)
(* computed and not assumed.                                               *)
(***************************************************************************)
Includes(s, p) ==
    \E i \in 0..(Len(s) - Len(p)) : SubSeq(s, i + 1, i + Len(p)) = p

DigitChar(d) == <<"0", "1", "2", "3", "4", "5", "6", "7", "8", "9">>[d + 1]

RECURSIVE StatusString(_)
StatusString(n) ==
    IF n < 10 THEN <<DigitChar(n)>>
    ELSE Append(StatusString(n \div 10), DigitChar(n % 10))

\* `API error: ${response.status}` (line 172)
ApiErrorMessage(status) ==
    <<"A", "P", "I", " ", "e", "r", "r", "o", "r", ":", " ">> \o StatusString(status)

\* { detail: "Unknown error" } (line 171)
UnknownError == <<"U", "n", "k", "n", "o", "w", "n", " ",
                  "e", "r", "r", "o", "r">>

\* the message of the TypeError that fetch rejects with on a network failure
FetchFailed == <<"f", "e", "t", "c", "h", " ", "f", "a", "i", "l", "e", "d">>

\* the message of the AbortError that fetch rejects with once aborted
OperationAborted == <<"T", "h", "i", "s", " ", "o", "p", "e", "r", "a", "t",
                      "i", "o", "n", " ", "w", "a", "s", " ",
                      "a", "b", "o", "r", "t", "e", "d">>

\* the message of the SyntaxError of response.json() on a malformed body
UnexpectedToken == <<"U", "n", "e", "x", "p", "e", "c", "t", "e", "d", " ",
                     "t", "o", "k", "e", "n">>

\* the same message when the offending character is at position 5
UnexpectedTokenAt5 ==
    UnexpectedToken \o <<" ", "a", "t", " ", "5">>

\* Bodies of a 2xx answer: a JSON object, JSON null, or text that is not
\* JSON, for which response.json() rejects with a SyntaxError.
OkBodies ==
    {[kind |-> "object", message |-> <<>>],
     [kind |-> "null", message |-> <<>>]}
    \cup {[kind |-> "malformed", message |-> m] :
            m \in {UnexpectedToken, UnexpectedTokenAt5}}

(***************************************************************************)
(* What the upstream may answer.                                           *)
(***************************************************************************)
Statuses == {200, 404, 405, 500}

ResponseOk(status) == status >= 200 /\ status <= 299

\* detail fields of an error body
Busy == <<"B", "u", "s", "y">>
Limit5 == <<"L", "i", "m", "i", "t", " ", "5">>

\* An error body: unparseable, or JSON with or without a detail field.
ErrorBodies ==
    {[parses |-> FALSE, hasDetail |-> FALSE, detail |-> <<>>],
     [parses |-> TRUE, hasDetail |-> FALSE, detail |-> <<>>]}
    \cup {[parses |-> TRUE, hasDetail |-> TRUE, detail |-> d] :
            d \in {<<>>, Busy, Limit5}}

\* An Error object: its name, its message, and the attempt that created it
\* (the object's identity).
NoError == [name |-> "none", message |-> <<>>, attempt |-> 0]
\* What happened upstream in a failed attempt, and the error thrown for it.
\* no error body was read
NoBody == [parses |-> FALSE, hasDetail |-> FALSE, detail |-> <<>>]
NoFailure == [kind |-> "none", status |-> 0, body |-> NoBody,
              error |-> NoError]
\* A settled promise of request: fulfilled with the body of an attempt, or
\* rejected with an error.
NoResult == [kind |-> "none", error |-> NoError, attempt |-> 0,
             json |-> "none", id |-> ""]

\* The shop of the session and its access token, as the loaders pass them.
ShopDomain == "acme.myshopify.com"
AccessToken == "shpat_1"
\* values of process.env.SCOPES: "" stands for a variable that is not set
EnvScopes == {"", "read_orders"}

\* request(endpoint, options) as the wrappers call it: registerShop (lines
\* 216-221), getShop (lines 223-225) and the wrappers of the data
\* endpoints, which all GET a path that carries the shop's id.
NoPayload == [domain |-> "", access_token |-> "", scopes |-> ""]
registerShop(domain, accessToken, scopes) ==
    [name |-> "registerShop", method |-> "POST", path |-> "/api/shops",
     body |-> [domain |-> domain, access_token |-> accessToken,
               scopes |-> scopes]]
getShop(domain) ==
    [name |-> "getShop", method |-> "GET", path |-> domain,
     body |-> NoPayload]
DataRequest ==
    [name |-> "data", method |-> "GET", path |-> "", body |-> NoPayload]
\* syncShop (lines 227-231), dismissInsight (lines 284-288) and
\* actionInsight (lines 290-294): a POST without a body
syncShop(shopId) ==
    [name |-> "syncShop", method |-> "POST", path |-> shopId,
     body |-> NoPayload]
dismissInsight(insightId) ==
    [name |-> "dismissInsight", method |-> "POST", path |-> insightId,
     body |-> NoPayload]
actionInsight(insightId) ==
    [name |-> "actionInsight", method |-> "POST", path |-> insightId,
     body |-> NoPayload]
\* getDashboardStats (lines 234-236), getRevenueChart (lines 238-242) and
\* getInsights (lines 259-278): a GET whose query carries the shop's id
getDashboardStats(shopId) ==
    [name |-> "getDashboardStats", method |-> "GET", path |-> shopId,
     body |-> NoPayload]
getRevenueChart(shopId) ==
    [name |-> "getRevenueChart", method |-> "GET", path |-> shopId,
     body |-> NoPayload]
getInsights(shopId) ==
    [name |-> "getInsights", method |-> "GET", path |-> shopId,
     body |-> NoPayload]

\* The backend's record of the domain: the id it gave the shop, "" while
\* the domain is unknown to it. Registration is idempotent: registering a
\* known domain answers with the id the shop already has.
UnknownShop == [id |-> ""]
BackendRegister(b) == IF b.id = "" THEN [id |-> "uuid-1"] ELSE b
\* the domain is unknown to the backend, or known to it
Backends == {UnknownShop, BackendRegister(UnknownShop)}

VARIABLES
    now,          \* Date.now(), ms
    timers,       \* armed timers: [owner, kind, attempt, armed, deadline]
    inflight,     \* open upstream exchanges: [owner, attempt, start]
    pc,           \* where each logical call of request is suspended
    retryCount,   \* the retryCount argument of the current frame of request
    attempts,     \* upstream attempts each call has issued
    delays,       \* the delays each call has passed to sleep, in order
    status,       \* status of the response whose body is being read
    failure,      \* what went wrong in the last failed attempt
    result,       \* how the promise of request settled
    healthCache,  \* the module-level cell of line 51
    hpc,          \* where each call of checkHealth is suspended
    hentry,       \* Date.now() when each call of checkHealth was made
    houtcome,     \* how the probe of each call of checkHealth ended
    hresult,      \* the status each call of checkHealth returned
    probes,       \* GET /health probes issued so far
    req,          \* the endpoint and options each call of request was given
    backend,      \* what the backend knows of the shop's domain
    env,          \* process.env.SCOPES ("" when it is not set)
    client,       \* how far each call of createApiClient has come
    rpc,          \* where each call of resolveShopId is suspended
    lookups,      \* calls of getShop each call of resolveShopId has made
    registers,    \* calls of registerShop each has made
    rlookup,      \* how the lookup of each call of resolveShopId failed
    rresult,      \* what each call of resolveShopId returned
    delivered,    \* the attempts of each followed call the backend received
    page,         \* the route each loader serves
    lpc,          \* where each loader is suspended
    pageData,     \* the object `data` each loader builds and returns
    num,          \* the argument formatNumber is called with
    shown,        \* the string the last call of formatNumber returned
    ncalls        \* the calls of formatNumber made so far

requestVars == <<pc, retryCount, attempts, delays, status, failure, result>>
healthVars == <<healthCache, hpc, hentry, houtcome, hresult, probes>>
resolverVars == <<rpc, lookups, registers, rlookup, rresult>>
formatVars == <<num, shown, ncalls>>
pageVars == <<delivered, page, lpc, pageData, formatVars>>
loaderVars == <<req, backend, env, client, resolverVars, pageVars>>
vars == <<now, timers, inflight, requestVars, healthVars, loaderVars>>

(***************************************************************************)
(* Timers (setTimeout / clearTimeout) and the clock.                       *)
(***************************************************************************)
\* setTimeout(() => controller.abort(), timeoutMs)  (line 62)
ArmTimeout(T, owner, attempt, timeoutMs) ==
    T \cup {[owner |-> owner, kind |-> "timeout", attempt |-> attempt,
             armed |-> now, deadline |-> now + timeoutMs]}

\* fetchWithTimeout without its finally block: the timer is left armed
LeaveTimeoutArmed(T, owner, attempt) == T

\* finally { clearTimeout(timeoutId) }  (lines 70-72)
ClearTimeout(T, owner, attempt) ==
    {t \in T : ~(t.owner = owner /\ t.kind = "timeout" /\ t.attempt = attempt)}

\* sleep(ms): new Promise((resolve) => setTimeout(resolve, ms))  (lines 78-80)
sleep(T, owner, attempt, ms) ==
    T \cup {[owner |-> owner, kind |-> "sleep", attempt |-> attempt,
             armed |-> now, deadline |-> now + ms]}

\* the steps by which the clock advances while no timer is armed
TickSteps == {4000}
HealthTickSteps == {30000}

\* Time passes: up to the moment the next armed timer is due, and never past
\* it (a due timer fires first); with no timer armed, by a step.
Tick(steps, limit) ==
    /\ now' \in IF timers = {}
                THEN {now + d : d \in steps}
                ELSE {t.deadline : t \in timers}
    /\ now' > now
    /\ now' <= limit * 1000
    /\ \A t \in timers : now' <= t.deadline
    /\ UNCHANGED <<timers, inflight, requestVars, healthVars, loaderVars>>

(***************************************************************************)
(* ApiClient.request, lines 154-199.                                       *)
(***************************************************************************)
\* isRetryable deciding an HTTP error by its status and not by a "5" in
\* its message: only the two tests of lines 181 and 182 are left
isRetryableWithoutDigit(error) ==
    \/ error.name = "AbortError"
    \/ Includes(error.message, <<"f", "e", "t", "c", "h">>)

\* lines 179-183
isRetryable(error) ==
    \/ error.name = "AbortError"
    \/ Includes(error.message, <<"f", "e", "t", "c", "h">>)
    \/ Includes(error.message, <<"5">>)

\* ShouldRetry with the bound of line 178 off by one (<= for <)
ShouldRetryInclusive(rc, error) == rc <= MAX_RETRIES /\ isRetryable(error)

\* lines 178 and 185: the two conditions under which the catch block retries
ShouldRetry(rc, error) == rc < MAX_RETRIES /\ isRetryable(error)

\* RetryDelay indexed by the number of the retry (1, 2, 3) and not by
\* retryCount (0, 1, 2)
RetryDelayByRetryNumber(rc) ==
    IF rc + 2 \in DOMAIN RETRY_DELAYS THEN RETRY_DELAYS[rc + 2] ELSE 0

\* RETRY_DELAYS[retryCount] (line 190); an index past the end is undefined,
\* and setTimeout takes an undefined delay as 0
RetryDelay(rc) ==
    IF rc + 1 \in DOMAIN RETRY_DELAYS THEN RETRY_DELAYS[rc + 1] ELSE 0

\* Rethrow throwing a new Error that wraps the caught one
RethrowWrapped(error) ==
    [name |-> "Error",
     message |-> <<"R", "e", "q", "u", "e", "s", "t", " ",
                   "f", "a", "i", "l", "e", "d">>,
     attempt |-> 0]

\* throw error (line 197): the promise rejects with the caught object itself
Rethrow(error) == error

\* error.detail || `API error: ${response.status}` (lines 171-172); the empty
\* string is falsy
ErrorMessage(body, st) ==
    IF ~body.parses THEN UnknownError
    ELSE IF body.hasDetail /\ body.detail # <<>> THEN body.detail
    ELSE ApiErrorMessage(st)

\* The call of fetchWithTimeout at lines 162-168, up to its await of fetch
\* (lines 61-65), as the n-th attempt of call c: a timer is armed and the
\* exchange is opened.
Fetch(c, n, T) ==
    /\ attempts' = [attempts EXCEPT ![c] = n]
    /\ timers' = ArmTimeout(T, c, n, REQUEST_TIMEOUT_MS)
    /\ inflight' = inflight \cup {[owner |-> c, attempt |-> n, start |-> now]}
    /\ pc' = [pc EXCEPT ![c] = "fetch"]
    /\ status' = [status EXCEPT ![c] = 0]
    /\ failure' = [failure EXCEPT ![c] = NoFailure]

\* the next attempt of a call that has issued attempts[c] of them
IssueAttempt(c, T) == Fetch(c, attempts[c] + 1, T)

\* Catch retrying only the calls that are safe to repeat: a POST is never
\* sent again
CatchIdempotentOnly(c, error, kind, st, body, T) ==
    /\ failure' = [failure EXCEPT
                     ![c] = [kind |-> kind, status |-> st, body |-> body,
                             error |-> error]]
    /\ status' = [status EXCEPT ![c] = 0]
    /\ IF req[c].method = "GET" /\ ShouldRetry(retryCount[c], error)
       THEN /\ timers' = sleep(T, c, attempts[c], RetryDelay(retryCount[c]))
            /\ delays' = [delays EXCEPT
                            ![c] = Append(@, RetryDelay(retryCount[c]))]
            /\ pc' = [pc EXCEPT ![c] = "sleep"]
            /\ UNCHANGED result
       ELSE /\ timers' = T
            /\ pc' = [pc EXCEPT ![c] = "rejected"]
            /\ result' = [result EXCEPT
                            ![c] = [kind |-> "error", error |-> Rethrow(error),
                                    attempt |-> attempts[c],
                                    json |-> "none", id |-> ""]]
            /\ UNCHANGED delays

\* The catch block, lines 176-198, entered with `error`; T is the set of
\* armed timers when it is entered, and body is the error body that line
\* 171 read, if the error is the one of line 172.
Catch(c, error, kind, st, body, T) ==
    /\ failure' = [failure EXCEPT
                     ![c] = [kind |-> kind, status |-> st, body |-> body,
                             error |-> error]]
    /\ status' = [status EXCEPT ![c] = 0]
    /\ IF ShouldRetry(retryCount[c], error)
       THEN /\ timers' = sleep(T, c, attempts[c], RetryDelay(retryCount[c]))
            /\ delays' = [delays EXCEPT
                            ![c] = Append(@, RetryDelay(retryCount[c]))]
            /\ pc' = [pc EXCEPT ![c] = "sleep"]
            /\ UNCHANGED result
       ELSE /\ timers' = T
            /\ pc' = [pc EXCEPT ![c] = "rejected"]
            /\ result' = [result EXCEPT
                            ![c] = [kind |-> "error", error |-> Rethrow(error),
                                    attempt |-> attempts[c],
                                    json |-> "none", id |-> ""]]
            /\ UNCHANGED delays

\* A caller invokes request(endpoint, options): retryCount is 0.
StartRequest(c) ==
    /\ c \in DOMAIN pc
    /\ pc[c] = "idle"
    /\ IssueAttempt(c, timers)
    /\ UNCHANGED <<now, retryCount, delays, result, healthVars, loaderVars>>

\* What the backend does with a request it answers with status st: it
\* answers a lookup 2xx only for a domain it knows, and a registration that
\* it answers 2xx has made the domain known.
BackendAnswers(c, st) ==
    CASE req[c].name = "getShop" ->
           /\ ResponseOk(st) => backend.id # ""
           /\ backend' = backend
      [] req[c].name = "registerShop" ->
           backend' = IF ResponseOk(st) THEN BackendRegister(backend)
                      ELSE backend
      [] OTHER -> backend' = backend

\* The backend has received the current attempt of call c; the deliveries
\* are recorded for the calls that are followed.
Deliver(c) ==
    delivered' = IF c \in DOMAIN delivered
                 THEN [delivered EXCEPT ![c] = @ \cup {attempts[c]}]
                 ELSE delivered

\* fetch resolves with the response's status line and headers (line 65); the
\* timer is cleared (line 71) and the body is read: by line 171 when the
\* status is not 2xx, by line 175 when it is.
FetchResponds(c) ==
    /\ c \in DOMAIN pc
    /\ pc[c] = "fetch"
    /\ \E st \in Statuses :
          /\ status' = [status EXCEPT ![c] = st]
          /\ pc' = [pc EXCEPT
                      ![c] = IF ResponseOk(st) THEN "body" ELSE "errorBody"]
          /\ BackendAnswers(c, st)
    /\ Deliver(c)
    /\ timers' = ClearTimeout(timers, c, attempts[c])
    /\ UNCHANGED <<now, inflight, retryCount, attempts, delays, failure,
                   result, healthVars, req, env, client, resolverVars,
                   page, lpc, pageData, formatVars>>

\* fetch rejects with a TypeError: the connection failed.
FetchFails(c) ==
    /\ c \in DOMAIN pc
    /\ pc[c] = "fetch"
    /\ inflight' = {x \in inflight : x.owner # c}
    /\ Catch(c, [name |-> "TypeError", message |-> FetchFailed,
                 attempt |-> attempts[c]],
             "network", 0, NoBody, ClearTimeout(timers, c, attempts[c]))
    /\ UNCHANGED <<now, retryCount, attempts, healthVars, loaderVars>>

\* The timer of line 62 fires: controller.abort(), and the pending fetch
\* rejects with an AbortError.
TimeoutFires(c) ==
    /\ c \in DOMAIN pc
    /\ pc[c] = "fetch"
    /\ \E t \in timers :
          /\ t.owner = c /\ t.kind = "timeout" /\ t.attempt = attempts[c]
          /\ now >= t.deadline
          /\ inflight' = {x \in inflight : x.owner # c}
          /\ Catch(c, [name |-> "AbortError", message |-> OperationAborted,
                       attempt |-> attempts[c]],
                   "timeout", 0, NoBody,
                   ClearTimeout(timers \ {t}, c, attempts[c]))
    /\ UNCHANGED <<now, retryCount, attempts, healthVars, loaderVars>>

\* response.json() of line 171 settles, and line 172 throws.
ErrorBodyArrives(c) ==
    /\ c \in DOMAIN pc
    /\ pc[c] = "errorBody"
    /\ inflight' = {x \in inflight : x.owner # c}
    /\ \E body \in ErrorBodies :
          Catch(c, [name |-> "Error",
                    message |-> ErrorMessage(body, status[c]),
                    attempt |-> attempts[c]],
                "http", status[c], body, timers)
    /\ UNCHANGED <<now, retryCount, attempts, healthVars, loaderVars>>

\* The Shop in the body of a 2xx answer of GET /api/shops/<domain> or of
\* POST /api/shops: the backend's record, which it does not change once the
\* domain is known; the bodies of the other endpoints carry no id.
ShopOf(c) ==
    IF req[c].name \in {"getShop", "registerShop"} THEN backend
    ELSE UnknownShop

\* response.json() of line 175 resolves with the parsed body, and request
\* resolves with it.
ReturnBody(c, body) ==
    /\ pc' = [pc EXCEPT ![c] = "resolved"]
    /\ result' = [result EXCEPT
                    ![c] = [kind |-> "value", error |-> NoError,
                            attempt |-> attempts[c], json |-> body.kind,
                            id |-> IF body.kind = "object"
                                   THEN ShopOf(c).id ELSE ""]]
    /\ UNCHANGED <<timers, delays, failure>>

\* the SyntaxError with which response.json() rejects
DecodeError(c, body) ==
    [name |-> "SyntaxError", message |-> body.message,
     attempt |-> attempts[c]]

\* BodyArrives with line 175 as `return await response.json()`: the
\* rejection is thrown inside the try and the catch block takes it
BodyArrivesAwaited(c) ==
    /\ c \in DOMAIN pc
    /\ pc[c] = "body"
    /\ inflight' = {x \in inflight : x.owner # c}
    /\ \E body \in OkBodies :
          IF body.kind = "malformed"
          THEN Catch(c, DecodeError(c, body), "decode", status[c], NoBody,
                     timers)
          ELSE /\ ReturnBody(c, body)
               /\ status' = [status EXCEPT ![c] = 0]
    /\ UNCHANGED <<now, retryCount, attempts, healthVars, loaderVars>>

\* response.json() of line 175 settles. The promise is returned without an
\* await, so the try block has been left when it rejects: the rejection
\* does not pass through the catch block and settles request as it is.
BodyArrives(c) ==
    /\ c \in DOMAIN pc
    /\ pc[c] = "body"
    /\ inflight' = {x \in inflight : x.owner # c}
    /\ status' = [status EXCEPT ![c] = 0]
    /\ \E body \in OkBodies :
          IF body.kind = "malformed"
          THEN /\ pc' = [pc EXCEPT ![c] = "rejected"]
               /\ failure' = [failure EXCEPT
                                ![c] = [kind |-> "decode", status |-> status[c],
                                        body |-> NoBody,
                                        error |-> DecodeError(c, body)]]
               /\ result' = [result EXCEPT
                               ![c] = [kind |-> "error",
                                       error |-> DecodeError(c, body),
                                       attempt |-> attempts[c],
                                       json |-> "none", id |-> ""]]
               /\ UNCHANGED <<timers, delays>>
          ELSE ReturnBody(c, body)
    /\ UNCHANGED <<now, retryCount, attempts, healthVars, loaderVars>>

\* SleepFires with the sleep of line 190 not awaited: line 191 runs while the
\* timer is still armed
SleepNotAwaited(c) ==
    /\ c \in DOMAIN pc
    /\ pc[c] = "sleep"
    /\ \E t \in timers :
          /\ t.owner = c /\ t.kind = "sleep"
          /\ IssueAttempt(c, timers \ {t})
    /\ retryCount' = [retryCount EXCEPT ![c] = @ + 1]
    /\ UNCHANGED <<now, delays, result, healthVars, loaderVars>>

\* The timer of sleep fires (line 190), and line 191 calls
\* this.request(endpoint, options, retryCount + 1).
SleepFires(c) ==
    /\ c \in DOMAIN pc
    /\ pc[c] = "sleep"
    /\ \E t \in timers :
          /\ t.owner = c /\ t.kind = "sleep"
          /\ now >= t.deadline
          /\ IssueAttempt(c, timers \ {t})
    /\ retryCount' = [retryCount EXCEPT ![c] = @ + 1]
    /\ UNCHANGED <<now, delays, result, healthVars, loaderVars>>

(***************************************************************************)
(* ApiClient.checkHealth, lines 111-149.                                   *)
(***************************************************************************)
\* healthCache = null (line 51)
NullStatus == [isNull |-> TRUE, healthy |-> FALSE, version |-> "",
               timestamp |-> 0, error |-> <<>>]

\* `HTTP ${response.status}` (line 136)
HttpMessage(st) == <<"H", "T", "T", "P", " ">> \o StatusString(st)

\* the message of the TypeError of data.status when the body is JSON null
CannotReadNull == <<"C", "a", "n", "n", "o", "t", " ", "r", "e", "a", "d">>

\* Bodies of a 2xx answer of /health: not JSON, JSON null, or an object
\* with a status and, possibly, a version ("" when it carries none).
HealthBodies ==
    {[kind |-> "malformed", status |-> "", version |-> ""],
     [kind |-> "null", status |-> "", version |-> ""]}
    \cup {[kind |-> "object", status |-> "healthy", version |-> "1.2.0"],
          [kind |-> "object", status |-> "degraded", version |-> ""]}

\* statuses with which /health may answer
ProbeStatuses == {200, 503}

\* CacheValid with <= for <
CacheValidInclusive(cache, t) ==
    ~cache.isNull /\ (t - cache.timestamp) <= HEALTH_CHECK_CACHE_MS

\* line 113
CacheValid(cache, t) ==
    ~cache.isNull /\ (t - cache.timestamp) < HEALTH_CHECK_CACHE_MS

\* lines 126-130; data.version || "unknown"
HealthyStatus(data, t) ==
    [isNull |-> FALSE, healthy |-> (data.status = "healthy"),
     version |-> IF data.version = "" THEN "unknown" ELSE data.version,
     timestamp |-> t, error |-> <<>>]

\* lines 132-137 and 140-145; an error of <<>> is a status without the field
FailedStatus(message, t) ==
    [isNull |-> FALSE, healthy |-> FALSE, version |-> "unknown",
     timestamp |-> t, error |-> message]

\* WriteAndReturn writing the cache only when the probe was answered 2xx
WriteOnSuccessAndReturn(h, newStatus, outcome) ==
    /\ healthCache' = IF outcome = "2xx" THEN newStatus ELSE healthCache
    /\ hresult' = [hresult EXCEPT ![h] = [kind |-> "returned",
                                          value |-> newStatus]]
    /\ houtcome' = [houtcome EXCEPT ![h] = outcome]
    /\ hpc' = [hpc EXCEPT ![h] = "returned"]
    /\ inflight' = {x \in inflight : x.owner # h}

\* WriteAndReturn with the return as a later read of the cell: the call
\* returns what the cell held, when it held a status, and not what it wrote
WriteAndReturnWhatWasCached(h, newStatus, outcome) ==
    /\ healthCache' = newStatus
    /\ hresult' = [hresult EXCEPT
                     ![h] = [kind |-> "returned",
                             value |-> IF healthCache.isNull THEN newStatus
                                       ELSE healthCache]]
    /\ houtcome' = [houtcome EXCEPT ![h] = outcome]
    /\ hpc' = [hpc EXCEPT ![h] = "returned"]
    /\ inflight' = {x \in inflight : x.owner # h}

\* WriteAndReturn stamping the status with the time the call was made and
\* not with the time of the write
WriteStampedAtEntry(h, newStatus, outcome) ==
    /\ healthCache' = [newStatus EXCEPT !.timestamp = hentry[h]]
    /\ hresult' = [hresult EXCEPT
                     ![h] = [kind |-> "returned",
                             value |-> [newStatus EXCEPT
                                          !.timestamp = hentry[h]]]]
    /\ houtcome' = [houtcome EXCEPT ![h] = outcome]
    /\ hpc' = [hpc EXCEPT ![h] = "returned"]
    /\ inflight' = {x \in inflight : x.owner # h}

\* WriteAndReturn as a compare-and-set: a call leaves the cache alone when
\* another call wrote it after this call entered checkHealth
WriteUnlessRefreshed(h, newStatus, outcome) ==
    /\ healthCache' = IF healthCache.isNull
                         \/ healthCache.timestamp < hentry[h]
                      THEN newStatus ELSE healthCache
    /\ hresult' = [hresult EXCEPT ![h] = [kind |-> "returned",
                                          value |-> newStatus]]
    /\ houtcome' = [houtcome EXCEPT ![h] = outcome]
    /\ hpc' = [hpc EXCEPT ![h] = "returned"]
    /\ inflight' = {x \in inflight : x.owner # h}

\* healthCache = ...; return healthCache (lines 126-148): the write and the
\* return of one call are one uninterrupted run.
WriteAndReturn(h, newStatus, outcome) ==
    /\ healthCache' = newStatus
    /\ hresult' = [hresult EXCEPT ![h] = [kind |-> "returned",
                                          value |-> newStatus]]
    /\ houtcome' = [houtcome EXCEPT ![h] = outcome]
    /\ hpc' = [hpc EXCEPT ![h] = "returned"]
    /\ inflight' = {x \in inflight : x.owner # h}

\* checkHealth letting the error of its probe escape: no catch block
PropagateProbeError(h, message, outcome) ==
    /\ hpc' = [hpc EXCEPT ![h] = "threw"]
    /\ hresult' = [hresult EXCEPT ![h] = [kind |-> "threw",
                                          value |-> NullStatus]]
    /\ houtcome' = [houtcome EXCEPT ![h] = outcome]
    /\ inflight' = {x \in inflight : x.owner # h}
    /\ UNCHANGED healthCache

\* The catch block, lines 139-146, entered with an error of this message.
CatchProbeError(h, message, outcome) ==
    WriteAndReturn(h, FailedStatus(message, now), outcome)

\* The ApiClient instance on which call h of checkHealth is made has its own
\* base URL (constructor, lines 86-88), and its probe goes to
\* `${this.baseUrl}/health` (line 118).
BaseUrlOf(h) == IF h % 2 = 1 THEN "https://a.example" ELSE "https://b.example"

\* the calls whose probe wrote the status that the cache holds
WritersOfCache ==
    {g \in DOMAIN hpc : /\ hpc[g] = "returned" /\ houtcome[g] # "cached"
                        /\ hresult[g].value = healthCache}

\* CachedFor with a cache kept per base URL: a call sees a status only when
\* a call on an instance with the same base URL wrote it
CachedForOwnBaseUrl(h) ==
    IF \E g \in WritersOfCache : BaseUrlOf(g) = BaseUrlOf(h)
    THEN healthCache ELSE NullStatus

\* The cell that call h reads at lines 113-114: the variable healthCache of
\* the module (line 51), on whichever instance the call is made.
CachedFor(h) == healthCache

\* checkHealth() up to its first await, or to its return of the cached
\* status: lines 113-122.
EnterCheckHealth(h) ==
    /\ h \in DOMAIN hpc
    /\ hpc[h] = "idle"
    /\ hentry' = [hentry EXCEPT ![h] = now]
    /\ IF CacheValid(CachedFor(h), now)
       THEN /\ hpc' = [hpc EXCEPT ![h] = "returned"]
            /\ hresult' = [hresult EXCEPT ![h] = [kind |-> "returned",
                                                  value |-> CachedFor(h)]]
            /\ houtcome' = [houtcome EXCEPT ![h] = "cached"]
            /\ UNCHANGED <<timers, inflight, probes, healthCache>>
       ELSE /\ hpc' = [hpc EXCEPT ![h] = "fetch"]
            /\ timers' = ArmTimeout(timers, h, 1, 5000)
            /\ inflight' = inflight \cup
                             {[owner |-> h, attempt |-> 1, start |-> now]}
            /\ probes' = probes + 1
            /\ UNCHANGED <<hresult, houtcome, healthCache>>

\* A caller invokes checkHealth().
CheckHealth(h) ==
    /\ EnterCheckHealth(h)
    /\ UNCHANGED <<now, requestVars, loaderVars>>

\* fetch resolves with the status line (line 118); line 124 reads
\* response.ok, and only a 2xx body is read (line 125).
ProbeResponds(h) ==
    /\ h \in DOMAIN hpc
    /\ hpc[h] = "fetch"
    /\ timers' = ClearTimeout(timers, h, 1)
    /\ \E st \in ProbeStatuses :
          IF ResponseOk(st)
          THEN /\ hpc' = [hpc EXCEPT ![h] = "body"]
               /\ UNCHANGED <<healthCache, hresult, houtcome, inflight>>
          ELSE WriteAndReturn(h, FailedStatus(HttpMessage(st), now), "non2xx")
    /\ UNCHANGED <<now, requestVars, loaderVars, hentry, probes>>

\* fetch rejects with a TypeError; the catch of line 139 takes it.
ProbeFails(h) ==
    /\ h \in DOMAIN hpc
    /\ hpc[h] = "fetch"
    /\ timers' = ClearTimeout(timers, h, 1)
    /\ CatchProbeError(h, FetchFailed, "network")
    /\ UNCHANGED <<now, requestVars, loaderVars, hentry, probes>>

\* The 5000 ms timer fires and aborts the probe; the catch takes the
\* AbortError.
ProbeTimeout(h) ==
    /\ h \in DOMAIN hpc
    /\ hpc[h] = "fetch"
    /\ \E t \in timers :
          /\ t.owner = h /\ t.kind = "timeout"
          /\ now >= t.deadline
          /\ timers' = ClearTimeout(timers \ {t}, h, 1)
    /\ CatchProbeError(h, OperationAborted, "timeout")
    /\ UNCHANGED <<now, requestVars, loaderVars, hentry, probes>>

\* response.json() of line 125 settles.
ProbeBodyArrives(h) ==
    /\ h \in DOMAIN hpc
    /\ hpc[h] = "body"
    /\ \E data \in HealthBodies :
          CASE data.kind = "object" ->
                 WriteAndReturn(h, HealthyStatus(data, now), "2xx")
            [] data.kind = "null" ->
                 CatchProbeError(h, CannotReadNull, "malformed")
            [] OTHER ->
                 CatchProbeError(h, UnexpectedToken, "malformed")
    /\ UNCHANGED <<now, timers, requestVars, loaderVars, hentry,
                   probes>>

(***************************************************************************)
(* resolveShopId, lines 332-352. Call r of resolveShopId awaits one call   *)
(* of request at a time, and that call is the call r of request.           *)
(***************************************************************************)
\* process.env.SCOPES || "read_products,read_orders" (line 344)
Scopes(e) == IF e = "" THEN "read_products,read_orders" ELSE e

\* LookupSucceeded for a resolver that registers the shop on every call
LookupNeverSuffices(r) == FALSE

\* lines 339-340 complete: getShop resolved, and with a body of which
\* shop.id can be read (reading it of null throws inside the try block)
LookupSucceeded(r) ==
    pc[r] = "resolved" /\ result[r].json = "object"

\* ShouldRegister for a catch that takes only a 404 for "not registered"
OnlyWhenNotFound(f) == f.kind = "http" /\ f.status = 404

\* line 341: `catch {` takes whatever was thrown at lines 339-340
ShouldRegister(f) == TRUE

\* shop.id (line 340)
LookedUpId(value) == value.id

\* RegisteredId returning the domain it was given and not the id
DomainAsId(value) == ShopDomain

\* newShop.id (line 346)
RegisteredId(value) == value.id

\* how lines 339-340 failed: the failure that rejected getShop, or the
\* TypeError of reading shop.id when the body was JSON null, with the
\* attempts and the backoff delays the call of getShop had taken
NoLookupFailure == [kind |-> "none", status |-> 0, attempts |-> 0, delays |-> 0]
LookupFailure(r) ==
    IF pc[r] = "rejected"
    THEN [kind |-> failure[r].kind, status |-> failure[r].status,
          attempts |-> attempts[r], delays |-> Len(delays[r])]
    ELSE [kind |-> "null", status |-> 200,
          attempts |-> attempts[r], delays |-> Len(delays[r])]

\* the settled promise of request that call r awaited is dropped
Release(r) ==
    /\ pc' = [pc EXCEPT ![r] = "idle"]
    /\ retryCount' = [retryCount EXCEPT ![r] = 0]
    /\ attempts' = [attempts EXCEPT ![r] = 0]
    /\ delays' = [delays EXCEPT ![r] = <<>>]
    /\ status' = [status EXCEPT ![r] = 0]
    /\ failure' = [failure EXCEPT ![r] = NoFailure]
    /\ result' = [result EXCEPT ![r] = NoResult]

\* return <id> / return null
Return(r, kind, id) ==
    /\ rpc' = [rpc EXCEPT ![r] = "returned"]
    /\ rresult' = [rresult EXCEPT ![r] = [kind |-> kind, id |-> id]]
    /\ Release(r)

\* CatchRegistrationError without the inner try: the error escapes
PropagateRegistrationError(r) ==
    /\ rpc' = [rpc EXCEPT ![r] = "threw"]
    /\ rresult' = [rresult EXCEPT ![r] = [kind |-> "threw", id |-> ""]]
    /\ Release(r)

\* lines 347-350: the inner catch logs the error and returns null
CatchRegistrationError(r) == Return(r, "null", "")

\* A caller invokes resolveShopId(client, shopDomain, accessToken): line 339
\* calls client.getShop(shopDomain).
ResolveShopId(r) ==
    /\ r \in DOMAIN rpc
    /\ rpc[r] = "idle"
    /\ rpc' = [rpc EXCEPT ![r] = "lookup"]
    /\ lookups' = [lookups EXCEPT ![r] = @ + 1]
    /\ req' = [req EXCEPT ![r] = getShop(ShopDomain)]
    /\ Fetch(r, 1, timers)
    /\ UNCHANGED <<now, retryCount, delays, result, healthVars, backend, env,
                   client, registers, rlookup, rresult, pageVars>>

\* The promise of getShop settles (line 339). When line 340 returns, the
\* call is over; otherwise the catch of line 341 calls registerShop with
\* the domain, the access token and the scopes (lines 344-345).
LookupSettles(r) ==
    /\ r \in DOMAIN rpc
    /\ rpc[r] = "lookup"
    /\ pc[r] \in {"resolved", "rejected"}
    /\ IF LookupSucceeded(r)
       THEN /\ Return(r, "id", LookedUpId(result[r]))
            /\ UNCHANGED <<timers, inflight, req, registers, rlookup>>
       ELSE IF ShouldRegister(LookupFailure(r))
       THEN /\ rlookup' = [rlookup EXCEPT ![r] = LookupFailure(r)]
            /\ rpc' = [rpc EXCEPT ![r] = "register"]
            /\ registers' = [registers EXCEPT ![r] = @ + 1]
            /\ req' = [req EXCEPT
                         ![r] = registerShop(ShopDomain, AccessToken,
                                             Scopes(env))]
            /\ retryCount' = [retryCount EXCEPT ![r] = 0]
            /\ delays' = [delays EXCEPT ![r] = <<>>]
            /\ result' = [result EXCEPT ![r] = NoResult]
            /\ Fetch(r, 1, timers)
            /\ UNCHANGED rresult
       ELSE /\ rlookup' = [rlookup EXCEPT ![r] = LookupFailure(r)]
            /\ Return(r, "null", "")
            /\ UNCHANGED <<timers, inflight, req, registers>>
    /\ UNCHANGED <<now, healthVars, backend, env, client, lookups, pageVars>>

\* The promise of registerShop settles (line 345): line 346 returns
\* newShop.id, or the inner catch takes what was thrown.
RegistrationSettles(r) ==
    /\ r \in DOMAIN rpc
    /\ rpc[r] = "register"
    /\ pc[r] \in {"resolved", "rejected"}
    /\ IF pc[r] = "resolved" /\ result[r].json = "object"
       THEN Return(r, "id", RegisteredId(result[r]))
       ELSE CatchRegistrationError(r)
    /\ UNCHANGED <<now, timers, inflight, healthVars, req, backend, env,
                   client, lookups, registers, rlookup, pageVars>>

\* The backend handles a request before it answers it, if it answers at
\* all: the attempt may still time out or lose its connection. A POST
\* /api/shops makes the domain known.
BackendReceives(c) ==
    /\ c \in DOMAIN pc
    /\ pc[c] = "fetch"
    /\ \/ req[c].name = "registerShop" /\ backend.id = ""
       \/ c \in DOMAIN delivered /\ attempts[c] \notin delivered[c]
    /\ backend' = IF req[c].name = "registerShop"
                  THEN BackendRegister(backend) ELSE backend
    /\ Deliver(c)
    /\ UNCHANGED <<now, timers, inflight, requestVars, healthVars, req, env,
                   client, resolverVars, page, lpc, pageData, formatVars>>

(***************************************************************************)
(* createApiClient, lines 306-320, and the loader that calls it and then   *)
(* resolveShopId (app.dashboard.tsx, lines 35-38). Loader l runs call l of *)
(* resolveShopId and call HealthCallOf(l) of checkHealth.                  *)
(***************************************************************************)
HealthCallOf(l) == 100 + l

\* HandClient for a createApiClient that refuses to hand out a client when
\* the backend is not healthy
HandClientIfHealthy(l) ==
    client' = [client EXCEPT
                 ![l] = IF hresult[HealthCallOf(l)].value.healthy
                        THEN "ready" ELSE "threw"]

\* lines 315-319: an unhealthy status is logged, and the client is returned
HandClient(l) == client' = [client EXCEPT ![l] = "ready"]

\* The loader calls createApiClient (line 35): a client is made and
\* configured (lines 310-311), and line 314 calls checkHealth and awaits it.
CreateApiClient(l) ==
    /\ l \in DOMAIN client
    /\ client[l] = "none"
    /\ client' = [client EXCEPT ![l] = "creating"]
    /\ EnterCheckHealth(HealthCallOf(l))
    /\ UNCHANGED <<now, requestVars, req, backend, env, resolverVars,
                   pageVars>>

\* The await of line 314 is over: createApiClient returns the client, or
\* fails with what checkHealth threw, to the loader.
ClientReturned(l) ==
    /\ l \in DOMAIN client
    /\ client[l] = "creating"
    /\ hpc[HealthCallOf(l)] \in {"returned", "threw"}
    /\ IF hpc[HealthCallOf(l)] = "returned"
       THEN HandClient(l)
       ELSE client' = [client EXCEPT ![l] = "threw"]
    /\ UNCHANGED <<now, timers, inflight, requestVars, healthVars, req,
                   backend, env, resolverVars, pageVars>>

\* The loader has its client and calls resolveShopId with it (line 38).
LoaderResolves(l) ==
    /\ l \in DOMAIN client
    /\ client[l] = "ready"
    /\ ResolveShopId(l)

NoHealthResult == [kind |-> "none", value |-> NullStatus]

\* The data object before the loader's try block: app.dashboard.tsx lines
\* 26-32, app.insights.tsx lines 40-45 and getZeroData of app.analytics.tsx
\* (lines 455-473). stats stands for the stats of the dashboard and the
\* metrics of the analytics page, chart for revenueChart and revenueByDay.
Defaults(g) ==
    [stats |-> IF g = "analytics" THEN "zero" ELSE "null",
     chart |-> IF g = "analytics" THEN "empty" ELSE "null",
     insights |-> "empty", error |-> "", backendDown |-> FALSE]
NoResolution == [kind |-> "none", id |-> ""]

(***************************************************************************)
(* The loaders of the dashboard (app.dashboard.tsx, lines 20-70), of the   *)
(* insights page (app.insights.tsx, lines 35-65) and of the analytics page *)
(* (app.analytics.tsx, lines 475-532), from the return of resolveShopId.   *)
(* Loader l makes its data requests as the calls StatsCallOf(l),           *)
(* ChartCallOf(l) and InsightsCallOf(l) of request.                        *)
(***************************************************************************)
Pages == {"dashboard", "insights", "analytics"}

StatsCallOf(l) == 10 * l + 1
ChartCallOf(l) == 10 * l + 2
InsightsCallOf(l) == 10 * l + 3

\* the data requests of a route: three for the dashboard (lines 46-50), two
\* for the analytics page (lines 498-501), one for the insights page (line
\* 57)
DataCallsOfPage(l, g) ==
    CASE g = "dashboard" -> {StatsCallOf(l), ChartCallOf(l), InsightsCallOf(l)}
      [] g = "analytics" -> {StatsCallOf(l), ChartCallOf(l)}
      [] OTHER -> {InsightsCallOf(l)}
DataCallsOf(l) == DataCallsOfPage(l, page[l])

\* the wrapper each data call goes through
WrapperOf(l, c, shopId) ==
    CASE c = StatsCallOf(l) -> getDashboardStats(shopId)
      [] c = ChartCallOf(l) -> getRevenueChart(shopId)
      [] OTHER -> getInsights(shopId)

\* the notices a loader puts in data.error (the dash of the dashboard's
\* notice is written as a hyphen)
NotRegistered ==
    "Could not register shop with backend. Data sync may be pending."
BackendUnavailable(g) ==
    IF g = "dashboard"
    THEN "Backend unavailable - showing cached or empty data"
    ELSE "Backend unavailable"

\* The catch block (dashboard lines 63-67, insights lines 59-62, analytics
\* lines 527-530), entered when the data object is d, and the return that
\* follows it; only the dashboard sets backendDown.
LoaderCatch(l, d) ==
    /\ pageData' = [pageData EXCEPT
                      ![l] = [d EXCEPT
                                !.error = BackendUnavailable(page[l]),
                                !.backendDown = (page[l] = "dashboard")]]
    /\ lpc' = [lpc EXCEPT ![l] = "returned"]

\* return data
LoaderReturns(l, d) ==
    /\ pageData' = [pageData EXCEPT ![l] = d]
    /\ lpc' = [lpc EXCEPT ![l] = "returned"]

\* The calls S of request are made in one run of the loader, one after the
\* other without an await between them: each runs up to its await of fetch.
FetchAll(l, S, shopId) ==
    /\ req' = [c \in DOMAIN req |->
                 IF c \in S THEN WrapperOf(l, c, shopId) ELSE req[c]]
    /\ attempts' = [c \in DOMAIN attempts |->
                      IF c \in S THEN 1 ELSE attempts[c]]
    /\ timers' = timers \cup
                   UNION {ArmTimeout({}, c, 1, REQUEST_TIMEOUT_MS) : c \in S}
    /\ inflight' = inflight \cup
                     {[owner |-> c, attempt |-> 1, start |-> now] : c \in S}
    /\ pc' = [c \in DOMAIN pc |-> IF c \in S THEN "fetch" ELSE pc[c]]
    /\ status' = [c \in DOMAIN status |-> IF c \in S THEN 0 ELSE status[c]]
    /\ failure' = [c \in DOMAIN failure |->
                     IF c \in S THEN NoFailure ELSE failure[c]]

\* NoShopId for a loader that does not test the shop id
ShopIdUnchecked(r) == FALSE

\* !shopId (dashboard line 40): null, and the empty string as well
NoShopId(r) == r.kind = "null" \/ r.id = ""

\* The await of resolveShopId is over (dashboard lines 38-50, insights
\* lines 50-57, analytics lines 490-501). Without a shop id the loader sets
\* its notice and returns; with one it makes its data requests. What the
\* model kept of the two calls the loader has awaited is dropped.
ShopIdResolved(l) ==
    /\ l \in DOMAIN lpc
    /\ lpc[l] = "idle"
    /\ client[l] = "ready"
    /\ rpc[l] \in {"returned", "threw"}
    /\ IF rpc[l] = "threw"
       THEN /\ LoaderCatch(l, pageData[l])
            /\ UNCHANGED <<timers, inflight, pc, attempts, status, failure,
                           req>>
       ELSE IF NoShopId(rresult[l])
       THEN /\ LoaderReturns(l, [pageData[l] EXCEPT !.error = NotRegistered])
            /\ UNCHANGED <<timers, inflight, pc, attempts, status, failure,
                           req>>
       ELSE /\ FetchAll(l, DataCallsOf(l), rresult[l].id)
            /\ lpc' = [lpc EXCEPT ![l] = "data"]
            /\ UNCHANGED pageData
    /\ lookups' = [lookups EXCEPT ![l] = 0]
    /\ registers' = [registers EXCEPT ![l] = 0]
    /\ rlookup' = [rlookup EXCEPT ![l] = NoLookupFailure]
    /\ hentry' = [hentry EXCEPT ![HealthCallOf(l)] = 0]
    /\ houtcome' = [houtcome EXCEPT ![HealthCallOf(l)] = "none"]
    /\ hresult' = [hresult EXCEPT ![HealthCallOf(l)] = NoHealthResult]
    /\ UNCHANGED <<now, retryCount, delays, result, healthCache, hpc, probes,
                   backend, env, client, rpc, rresult, delivered, page,
                   formatVars>>

\* what a settled data call gave the loader
Fulfilled(c) == pc[c] = "resolved"
ValueOf(c) == result[c].json

\* DashboardData with Promise.all in the place of Promise.allSettled: one
\* rejected request rejects the join, and the catch block is entered
\* before any field is filled
DashboardDataFailFast(l, d) ==
    IF \E c \in DataCallsOf(l) : ~Fulfilled(c)
    THEN LoaderCatch(l, d)
    ELSE IF ValueOf(InsightsCallOf(l)) = "null"
    THEN LoaderCatch(l, [d EXCEPT !.stats = ValueOf(StatsCallOf(l)),
                                  !.chart = ValueOf(ChartCallOf(l))])
    ELSE LoaderReturns(l, [d EXCEPT !.stats = ValueOf(StatsCallOf(l)),
                                    !.chart = ValueOf(ChartCallOf(l)),
                                    !.insights = "items"])

\* Dashboard lines 52-62: stats and revenueChart take the value of their
\* request, whatever it is; insights takes the items of the value, and
\* reading them of null throws into the catch block.
DashboardData(l, d) ==
    LET filled == [d EXCEPT
                     !.stats = IF Fulfilled(StatsCallOf(l))
                               THEN ValueOf(StatsCallOf(l)) ELSE @,
                     !.chart = IF Fulfilled(ChartCallOf(l))
                               THEN ValueOf(ChartCallOf(l)) ELSE @]
    IN  IF Fulfilled(InsightsCallOf(l))
        THEN IF ValueOf(InsightsCallOf(l)) = "null"
             THEN LoaderCatch(l, filled)
             ELSE LoaderReturns(l, [filled EXCEPT !.insights = "items"])
        ELSE LoaderReturns(l, filled)

\* Analytics lines 503-526: the metrics are computed from fields of the
\* stats and revenueByDay is the data of the chart; reading a field of null
\* throws into the catch block, and the lines after it do not run.
AnalyticsData(l, d) ==
    IF Fulfilled(StatsCallOf(l)) /\ ValueOf(StatsCallOf(l)) = "null"
    THEN LoaderCatch(l, d)
    ELSE LET filled == [d EXCEPT
                          !.stats = IF Fulfilled(StatsCallOf(l))
                                    THEN "object" ELSE @]
         IN  IF Fulfilled(ChartCallOf(l))
             THEN IF ValueOf(ChartCallOf(l)) = "null"
                  THEN LoaderCatch(l, filled)
                  ELSE LoaderReturns(l, [filled EXCEPT !.chart = "object"])
             ELSE LoaderReturns(l, filled)

\* Insights lines 57-58: the request is awaited in the try block, so its
\* rejection is caught, as is the reading of the items of null.
InsightsData(l, d) ==
    IF Fulfilled(InsightsCallOf(l)) /\ ValueOf(InsightsCallOf(l)) # "null"
    THEN LoaderReturns(l, [d EXCEPT !.insights = "items"])
    ELSE LoaderCatch(l, d)

\* Every data request of the loader has settled: the await of
\* Promise.allSettled (dashboard line 46, analytics line 498) or of
\* getInsights (insights line 57) is over, and the loader runs to its end.
DataSettled(l) ==
    /\ l \in DOMAIN lpc
    /\ lpc[l] = "data"
    /\ \A c \in DataCallsOf(l) : pc[c] \in {"resolved", "rejected"}
    /\ CASE page[l] = "dashboard" -> DashboardData(l, pageData[l])
         [] page[l] = "analytics" -> AnalyticsData(l, pageData[l])
         [] OTHER -> InsightsData(l, pageData[l])
    /\ UNCHANGED <<now, timers, inflight, requestVars, healthVars, req,
                   backend, env, client, resolverVars, delivered, page,
                   formatVars>>

(***************************************************************************)
(* formatNumber, app/utils/format.ts lines 15-20. An argument is a number, *)
(* null, undefined or NaN; the numbers are integers.                       *)
(***************************************************************************)
NoArgument == [kind |-> "none", value |-> 0]
Number(n) == [kind |-> "number", value |-> n]
NotNumbers == {[kind |-> k, value |-> 0] : k \in {"null", "undefined", "NaN"}}

\* Number.prototype.toString of an integer: its decimal digits, after a
\* minus sign when it is negative
toString(n) ==
    IF n < 0 THEN <<"-">> \o StatusString(0 - n) ELSE StatusString(n)

\* s.split("."): the pieces of s between its dots
RECURSIVE split(_)
split(s) ==
    IF \E i \in 1..Len(s) : s[i] = "."
    THEN LET i == CHOOSE j \in 1..Len(s) :
                    s[j] = "." /\ \A k \in 1..(j - 1) : s[k] # "."
         IN  <<SubSeq(s, 1, i - 1)>> \o split(SubSeq(s, i + 1, Len(s)))
    ELSE <<s>>

\* \d and \w on the characters a printed number is made of
IsDigit(ch) ==
    ch \in {"0", "1", "2", "3", "4", "5", "6", "7", "8", "9"}
IsWordChar(ch) == IsDigit(ch) \/ ch \in {"e", "I", "n", "f", "i", "t", "y"}

\* NonWordBoundary for a pattern without its \B
AnyPosition(s, p) == TRUE

\* \B at position p of s, between s[p] and s[p + 1]: both are word
\* characters, or neither is; the two ends of s count as non-word
NonWordBoundary(s, p) ==
    (p >= 1 /\ IsWordChar(s[p])) = (p < Len(s) /\ IsWordChar(s[p + 1]))

\* (?=(\d{3})+(?!\d)) at position p: some number of groups of three digits
\* follows, and then no digit
FollowedByGroups(s, p) ==
    \E k \in 1..Len(s) :
        /\ p + 3 * k <= Len(s)
        /\ \A i \in (p + 1)..(p + 3 * k) : IsDigit(s[i])
        /\ p + 3 * k = Len(s) \/ ~IsDigit(s[p + 3 * k + 1])

\* s.replace(/\B(?=(\d{3})+(?!\d))/g, ","), from position p on: a comma is
\* put at every position where the pattern matches the empty string
RECURSIVE replace(_, _)
replace(s, p) ==
    (IF NonWordBoundary(s, p) /\ FollowedByGroups(s, p)
     THEN <<",">> ELSE <<>>)
    \o (IF p < Len(s) THEN <<s[p + 1]>> \o replace(s, p + 1) ELSE <<>>)

\* lines 15-20
formatNumber(a) ==
    IF a.kind # "number" THEN <<"0">>
    ELSE LET pieces == split(toString(a.value))
             formatted == replace(pieces[1], 0)
         IN  IF Len(pieces) >= 2 /\ pieces[2] # <<>>
             THEN formatted \o <<".">> \o pieces[2]
             ELSE formatted

\* A caller formats its number.
FormatNumber ==
    /\ num.kind # "none"
    /\ ncalls < MaxFormatCalls
    /\ shown' = formatNumber(num)
    /\ ncalls' = ncalls + 1
    /\ UNCHANGED <<now, timers, inflight, requestVars, healthVars, req,
                   backend, env, client, resolverVars, delivered, page, lpc,
                   pageData, num>>

(***************************************************************************)
(* The specifications.                                                     *)
(***************************************************************************)
InitWith(C, H, Q) ==
    /\ now = 0
    /\ timers = {}
    /\ inflight = {}
    /\ pc = [c \in C |-> "idle"]
    /\ retryCount = [c \in C |-> 0]
    /\ attempts = [c \in C |-> 0]
    /\ delays = [c \in C |-> <<>>]
    /\ status = [c \in C |-> 0]
    /\ failure = [c \in C |-> NoFailure]
    /\ result = [c \in C |-> NoResult]
    /\ healthCache = NullStatus
    /\ hpc = [h \in H |-> "idle"]
    /\ hentry = [h \in H |-> 0]
    /\ houtcome = [h \in H |-> "none"]
    /\ hresult = [h \in H |-> NoHealthResult]
    /\ probes = 0
    /\ req \in [C -> Q]

\* calls of request for a data endpoint
InitOf(C, H) == InitWith(C, H, {DataRequest})

\* K are the callers of createApiClient, R those of resolveShopId, E the
\* values process.env.SCOPES may have, and B what the backend may know of
\* the domain.
InitLoader(K, R, E, B) ==
    /\ backend \in B
    /\ env \in E
    /\ client = [k \in K |-> "none"]
    /\ rpc = [r \in R |-> "idle"]
    /\ lookups = [r \in R |-> 0]
    /\ registers = [r \in R |-> 0]
    /\ rlookup = [r \in R |-> NoLookupFailure]
    /\ rresult = [r \in R |-> NoResolution]

\* D are the calls whose deliveries are followed, L the loaders and G the
\* routes they may serve.
InitRoutes(D, L, G) ==
    /\ delivered = [c \in D |-> {}]
    /\ page \in [L -> G]
    /\ lpc = [l \in L |-> "idle"]
    /\ pageData = [l \in L |-> Defaults(page[l])]
\* A are the arguments formatNumber may be called with.
InitFormat(A) ==
    /\ num \in A
    /\ shown = <<>>
    /\ ncalls = 0
InitPage(D, L, G) == InitRoutes(D, L, G) /\ InitFormat({NoArgument})
NoPages == InitPage({}, {}, {})

\* Logical calls of request on one client.
Init ==
    InitOf(Calls, {}) /\ InitLoader({}, {}, {""}, {UnknownShop}) /\ NoPages
Next ==
    \/ Tick(TickSteps, MaxClock)
    \/ \E c \in AllCalls : StartRequest(c)
    \/ \E c \in AllCalls : FetchResponds(c)
    \/ \E c \in AllCalls : FetchFails(c)
    \/ \E c \in AllCalls : TimeoutFires(c)
    \/ \E c \in AllCalls : ErrorBodyArrives(c)
    \/ \E c \in AllCalls : BodyArrives(c)
    \/ \E c \in AllCalls : SleepFires(c)
Spec == Init /\ [][Next]_vars

\* Two logical calls of request that overlap.
InitConcurrent ==
    /\ InitOf(ConcurrentCalls, {})
    /\ InitLoader({}, {}, {""}, {UnknownShop}) /\ NoPages
SpecConcurrent == InitConcurrent /\ [][Next]_vars

\* Callers of checkHealth, one after the other or overlapping.
InitHealth ==
    InitOf({}, Checkers) /\ InitLoader({}, {}, {""}, {UnknownShop})
    /\ NoPages
NextHealth ==
    \/ Tick(HealthTickSteps, MaxHealthClock)
    \/ \E h \in Checkers : CheckHealth(h)
    \/ \E h \in Checkers : ProbeResponds(h)
    \/ \E h \in Checkers : ProbeFails(h)
    \/ \E h \in Checkers : ProbeTimeout(h)
    \/ \E h \in Checkers : ProbeBodyArrives(h)
SpecHealth == InitHealth /\ [][NextHealth]_vars

\* Calls of resolveShopId, one at a time.
InitResolve ==
    InitOf(Resolvers, {}) /\ InitLoader({}, Resolvers, EnvScopes, Backends)
    /\ NoPages
NextResolve ==
    \/ Tick(TickSteps, MaxResolveClock)
    \/ \E r \in AllResolvers : ResolveShopId(r)
    \/ \E r \in AllResolvers : LookupSettles(r)
    \/ \E r \in AllResolvers : RegistrationSettles(r)
    \/ \E c \in AllResolvers : BackendReceives(c)
    \/ \E c \in AllResolvers : FetchResponds(c)
    \/ \E c \in AllResolvers : FetchFails(c)
    \/ \E c \in AllResolvers : TimeoutFires(c)
    \/ \E c \in AllResolvers : ErrorBodyArrives(c)
    \/ \E c \in AllResolvers : BodyArrives(c)
    \/ \E c \in AllResolvers : SleepFires(c)
SpecResolve == InitResolve /\ [][NextResolve]_vars

\* Two calls of resolveShopId for the same domain that may overlap, followed
\* for MaxConcurrentClock seconds: time for a first retry of each request,
\* and too short for the 10000 ms timer of an attempt to fire.
InitResolveConcurrent ==
    InitOf(ConcurrentResolvers, {})
    /\ InitLoader({}, ConcurrentResolvers, {""}, Backends) /\ NoPages
NextResolveConcurrent ==
    \/ Tick(TickSteps, MaxConcurrentClock)
    \/ \E r \in AllResolvers : ResolveShopId(r)
    \/ \E r \in AllResolvers : LookupSettles(r)
    \/ \E r \in AllResolvers : RegistrationSettles(r)
    \/ \E c \in AllResolvers : BackendReceives(c)
    \/ \E c \in AllResolvers : FetchResponds(c)
    \/ \E c \in AllResolvers : FetchFails(c)
    \/ \E c \in AllResolvers : ErrorBodyArrives(c)
    \/ \E c \in AllResolvers : BodyArrives(c)
    \/ \E c \in AllResolvers : SleepFires(c)
SpecResolveConcurrent ==
    InitResolveConcurrent /\ [][NextResolveConcurrent]_vars

\* A loader: createApiClient, then resolveShopId.
InitClient ==
    InitOf(Loaders, {HealthCallOf(l) : l \in Loaders})
    /\ InitLoader(Loaders, Loaders, {""}, {UnknownShop}) /\ NoPages
NextClient ==
    \/ Tick(TickSteps, MaxClientClock)
    \/ \E l \in Loaders : CreateApiClient(l)
    \/ \E h \in Checkers : ProbeResponds(h)
    \/ \E h \in Checkers : ProbeFails(h)
    \/ \E h \in Checkers : ProbeTimeout(h)
    \/ \E h \in Checkers : ProbeBodyArrives(h)
    \/ \E l \in Loaders : ClientReturned(l)
    \/ \E l \in Loaders : LoaderResolves(l)
    \/ \E r \in Loaders : LookupSettles(r)
    \/ \E r \in Loaders : RegistrationSettles(r)
    \/ \E c \in Loaders : BackendReceives(c)
    \/ \E c \in Loaders : FetchResponds(c)
    \/ \E c \in Loaders : FetchFails(c)
    \/ \E c \in Loaders : TimeoutFires(c)
    \/ \E c \in Loaders : ErrorBodyArrives(c)
    \/ \E c \in Loaders : BodyArrives(c)
    \/ \E c \in Loaders : SleepFires(c)
SpecClient == InitClient /\ [][NextClient]_vars

\* A loader followed to the end of resolveShopId. Time passes only while
\* a timer is armed, and every step that the runtime takes by itself is
\* taken: time passes, a timer that is due fires, a body that is being
\* read arrives, and a settled promise resumes the function that awaits
\* it. Whether and when the backend answers is left open; it handles a
\* registration when it answers it.
NextLive ==
    \/ Tick({}, MaxLiveClock)
    \/ \E l \in Loaders : CreateApiClient(l)
    \/ \E h \in Checkers : ProbeResponds(h)
    \/ \E h \in Checkers : ProbeFails(h)
    \/ \E h \in Checkers : ProbeTimeout(h)
    \/ \E h \in Checkers : ProbeBodyArrives(h)
    \/ \E l \in Loaders : ClientReturned(l)
    \/ \E l \in Loaders : LoaderResolves(l)
    \/ \E r \in Loaders : LookupSettles(r)
    \/ \E r \in Loaders : RegistrationSettles(r)
    \/ \E c \in Loaders : FetchResponds(c)
    \/ \E c \in Loaders : FetchFails(c)
    \/ \E c \in Loaders : TimeoutFires(c)
    \/ \E c \in Loaders : ErrorBodyArrives(c)
    \/ \E c \in Loaders : BodyArrives(c)
    \/ \E c \in Loaders : SleepFires(c)
Fairness ==
    /\ WF_vars(Tick({}, MaxLiveClock))
    /\ \A h \in Checkers :
          WF_vars(ProbeTimeout(h)) /\ WF_vars(ProbeBodyArrives(h))
    /\ \A l \in Loaders :
          /\ WF_vars(TimeoutFires(l)) /\ WF_vars(SleepFires(l))
          /\ WF_vars(BodyArrives(l)) /\ WF_vars(ErrorBodyArrives(l))
          /\ WF_vars(ClientReturned(l)) /\ WF_vars(LoaderResolves(l))
          /\ WF_vars(LookupSettles(l)) /\ WF_vars(RegistrationSettles(l))
SpecLive == InitClient /\ [][NextLive]_vars /\ Fairness

\* Calls of formatNumber with one argument: an integer of up to
\* MaxSmallNumber, one of the larger numbers, null, undefined or NaN.
LargeNumbers ==
    {9999, 10000, 12345, 99999, 100000, 123456, 999999, 1000000, 1234567,
     9999999, 10000000, 12345678, 123456789, 999999999, 1000000000,
     1234567890, 2147483647}
Arguments ==
    {Number(n) : n \in (0 - MaxSmallNumber)..MaxSmallNumber}
    \cup {Number(n) : n \in LargeNumbers}
    \cup {Number(0 - n) : n \in LargeNumbers}
    \cup NotNumbers
InitFormats ==
    /\ InitOf({}, {})
    /\ InitLoader({}, {}, {""}, {UnknownShop})
    /\ InitRoutes({}, {}, {})
    /\ InitFormat(Arguments)
NextFormats == FormatNumber
SpecFormats == InitFormats /\ [][NextFormats]_vars

\* One call of request made by a wrapper, a POST or a GET, with the
\* attempts that reach the backend followed; MaxPostClock seconds are time
\* for four attempts that all run into their timeout.
FollowedCalls == {1}
WrapperRequests ==
    {registerShop(ShopDomain, AccessToken, Scopes("")), syncShop("uuid-1"),
     dismissInsight("insight-1"), actionInsight("insight-1"), DataRequest}
InitPost ==
    /\ InitWith(FollowedCalls, {}, WrapperRequests)
    /\ InitLoader({}, {}, {""}, {UnknownShop})
    /\ InitPage(FollowedCalls, {}, {})
NextPost ==
    \/ Tick(TickSteps, MaxPostClock)
    \/ \E c \in FollowedCalls : StartRequest(c)
    \/ \E c \in FollowedCalls : BackendReceives(c)
    \/ \E c \in FollowedCalls : FetchResponds(c)
    \/ \E c \in FollowedCalls : FetchFails(c)
    \/ \E c \in FollowedCalls : TimeoutFires(c)
    \/ \E c \in FollowedCalls : ErrorBodyArrives(c)
    \/ \E c \in FollowedCalls : BodyArrives(c)
    \/ \E c \in FollowedCalls : SleepFires(c)
SpecPost == InitPost /\ [][NextPost]_vars

\* A page load: createApiClient, resolveShopId and the data requests of
\* the route, in every order in which the backend may answer them, followed
\* as long as no timer fires: an attempt is answered, or loses its
\* connection, or is still open, and a call that waits for a retry is not
\* followed further.
PageCalls ==
    Loaders \cup UNION {DataCallsOfPage(l, g) : l \in Loaders, g \in Pages}
InitPages ==
    /\ InitOf(PageCalls, {HealthCallOf(l) : l \in Loaders})
    /\ InitLoader(Loaders, Loaders, {""}, Backends)
    /\ InitPage({}, Loaders, Pages)
NextPages ==
    \/ \E l \in Loaders : CreateApiClient(l)
    \/ \E h \in Checkers : ProbeResponds(h)
    \/ \E h \in Checkers : ProbeFails(h)
    \/ \E h \in Checkers : ProbeBodyArrives(h)
    \/ \E l \in Loaders : ClientReturned(l)
    \/ \E l \in Loaders : LoaderResolves(l)
    \/ \E r \in Loaders : LookupSettles(r)
    \/ \E r \in Loaders : RegistrationSettles(r)
    \/ \E l \in Loaders : ShopIdResolved(l)
    \/ \E l \in Loaders : DataSettled(l)
    \/ \E c \in PageCalls : BackendReceives(c)
    \/ \E c \in PageCalls : FetchResponds(c)
    \/ \E c \in PageCalls : FetchFails(c)
    \/ \E c \in PageCalls : ErrorBodyArrives(c)
    \/ \E c \in PageCalls : BodyArrives(c)
SpecPages == InitPages /\ [][NextPages]_vars

(***************************************************************************)
(* The retry loop of request.                                              *)
(***************************************************************************)
\* what a failed attempt is a failure of
IsTimeout(f) == f.kind = "timeout"
IsNetworkFailure(f) == f.kind = "network"
IsHttp5xx(f) == f.kind = "http" /\ f.status >= 500 /\ f.status <= 599
IsHttp4xx(f) == f.kind = "http" /\ f.status >= 400 /\ f.status <= 499
IsDecodeFailure(f) == f.kind = "decode"
RetryableClass(f) == IsTimeout(f) \/ IsNetworkFailure(f) \/ IsHttp5xx(f)
Settled(c) == pc[c] \in {"resolved", "rejected"}

\* C1: a logical call of request that starts at attempt 0 issues at most 4
\* upstream attempts, whatever the upstream answers.
C1_AtMostFourAttempts ==
    \A c \in DOMAIN pc : attempts[c] <= 4

\* a call that used all 4 attempts and failed
C1_Witness ==
    \E c \in DOMAIN pc : pc[c] = "rejected" /\ attempts[c] = 4

\* C2: a failure of a retryable class (timeout, network failure, any HTTP
\* 5xx) while attempt < 3 is followed by a further attempt, and a call that
\* resolves with the value of attempt 4 has issued exactly 4 attempts.
C2_RetryableFailureIsRetried ==
    \A c \in DOMAIN pc :
        /\ (RetryableClass(failure[c]) /\ retryCount[c] < 3)
              => pc[c] = "sleep"
        /\ (pc[c] = "resolved" /\ retryCount[c] = 3)
              => (result[c].kind = "value" /\ result[c].attempt = 4
                  /\ attempts[c] = 4)

\* C3: a non-retryable failure (any HTTP 4xx, a decode failure) makes request
\* fail at once: no backoff delay follows it, and when it is the failure of
\* the first attempt the call ends after exactly one attempt, undelayed.
C3_NonRetryableFailsAtOnce ==
    \A c \in DOMAIN pc :
        (IsHttp4xx(failure[c]) \/ IsDecodeFailure(failure[c]))
           => /\ pc[c] = "rejected"
              /\ retryCount[c] = 0 => (attempts[c] = 1 /\ delays[c] = <<>>)

\* C4: the delays slept by a logical call are, in order, a prefix of
\* <<1000, 2000, 4000>>; one delay lies between two successive attempts, none
\* before the first attempt and none after the last; and the timer of a
\* sleeping call is due exactly that delay after it was armed.
C4_BackoffSchedule ==
    \A c \in DOMAIN pc :
        /\ Len(delays[c]) <= 3
        /\ delays[c] = SubSeq(<<1000, 2000, 4000>>, 1, Len(delays[c]))
        /\ pc[c] = "sleep" => Len(delays[c]) = attempts[c]
        /\ (pc[c] # "sleep" /\ attempts[c] > 0)
              => Len(delays[c]) = attempts[c] - 1
        /\ attempts[c] = 0 => delays[c] = <<>>
        /\ \A t \in timers :
              (t.owner = c /\ t.kind = "sleep")
                 => /\ pc[c] = "sleep"
                    /\ t.deadline - t.armed = delays[c][Len(delays[c])]

\* a call that slept all three delays and has ended
C4_Witness ==
    \E c \in DOMAIN pc : Settled(c) /\ delays[c] = <<1000, 2000, 4000>>

\* C5: a call whose last attempt failed rejects, and with the very error
\* that this last attempt raised; it resolves only with the value of its
\* last attempt.
C5_FinalErrorSurfaces ==
    \A c \in DOMAIN pc :
        /\ pc[c] = "rejected"
              => /\ result[c].kind = "error"
                 /\ failure[c] # NoFailure
                 /\ result[c].error = failure[c].error
                 /\ result[c].error.attempt = attempts[c]
        /\ (Settled(c) /\ failure[c] # NoFailure) => pc[c] = "rejected"
        /\ pc[c] = "resolved"
              => /\ result[c].kind = "value"
                 /\ result[c].attempt = attempts[c]
                 /\ failure[c] = NoFailure
        /\ ~Settled(c) => result[c] = NoResult

\* a call all 4 attempts of which failed, rejected with the error of the 4th
C5_Witness ==
    \E c \in DOMAIN pc :
        /\ pc[c] = "rejected" /\ attempts[c] = 4
        /\ RetryableClass(failure[c])
        /\ result[c].error.attempt = 4

\* the open upstream exchanges of a call
InFlight(c) == {x \in inflight : x.owner = c}

\* C6: a logical call has at most one attempt in flight, and none while it
\* sleeps or after it has settled; an attempt after the first starts only
\* from a call whose previous attempt has failed and whose backoff timer,
\* armed for the delay of that retry, is due: also with two calls at once.
C6_RetriesAreSequential ==
    /\ [](\A c \in DOMAIN pc :
            /\ Cardinality(InFlight(c)) <= 1
            /\ pc[c] \in {"idle", "sleep", "resolved", "rejected"}
                  => InFlight(c) = {}
            /\ \A x \in InFlight(c) : x.attempt = attempts[c])
    /\ [][\A c \in DOMAIN pc :
            (attempts'[c] # attempts[c] /\ attempts[c] >= 1)
               => /\ attempts'[c] = attempts[c] + 1
                  /\ InFlight(c) = {}
                  /\ failure[c] # NoFailure
                  /\ \E t \in timers :
                        /\ t.owner = c /\ t.kind = "sleep"
                        /\ now - t.armed >= <<1000, 2000, 4000>>[attempts[c]]
                        /\ t \notin timers']_vars

\* two calls have an attempt in flight at once, one of them a retry
C6_Witness ==
    \E c, d \in DOMAIN pc :
        /\ c # d
        /\ InFlight(c) # {} /\ InFlight(d) # {}
        /\ attempts[c] >= 2

\* C7: no attempt stays pending once its timeout has elapsed: an open
\* exchange is never older than the 10000 ms of its timer.
C7_NoAttemptOutlivesItsTimeout ==
    \A x \in inflight : now - x.start <= 10000

(***************************************************************************)
(* The health cache.                                                       *)
(***************************************************************************)
\* the outcomes of a probe that are failures
ProbeFailures == {"timeout", "network", "non2xx", "malformed"}

\* C8: a call of checkHealth that finds a cached status less than 60000 ms
\* old returns that status, issues no probe and leaves the cache as it is;
\* a call that finds no status, or one 60000 ms old or older, issues a probe.
C8_FreshCacheIsReturned ==
    [][\A h \in DOMAIN hpc :
         (hpc[h] = "idle" /\ hpc'[h] # "idle")
            => IF ~healthCache.isNull /\ now - healthCache.timestamp < 60000
               THEN /\ hpc'[h] = "returned"
                    /\ hresult'[h] = [kind |-> "returned",
                                      value |-> healthCache]
                    /\ probes' = probes
                    /\ inflight' = inflight
                    /\ healthCache' = healthCache
               ELSE /\ hpc'[h] = "fetch"
                    /\ probes' = probes + 1
                    /\ \E x \in inflight' \ inflight : x.owner = h]_vars

\* two calls, the second answered from the cache: one probe in all
C8_Witness ==
    \E g, h \in DOMAIN hpc :
        /\ houtcome[g] \in {"2xx"} \cup ProbeFailures
        /\ houtcome[h] = "cached"
        /\ hresult[h].value = hresult[g].value
        /\ hentry[h] > hresult[g].value.timestamp
        /\ probes = 1

\* C9: a call that is not answered from the cache issues exactly one probe;
\* every outcome of a probe (2xx, non-2xx, timeout, network error, malformed
\* body) replaces the cache by the status built from it, stamped with the
\* time of the write; and no call returns a status that was already 60000 ms
\* old when the call was made.
C9_EveryProbeOverwritesTheCache ==
    /\ [](probes = Cardinality({h \in DOMAIN hpc :
                                  \/ hpc[h] \in {"fetch", "body"}
                                  \/ houtcome[h] \in {"2xx"} \cup ProbeFailures}))
    /\ [][\A h \in DOMAIN hpc :
            (hpc[h] \in {"fetch", "body"} /\ hpc'[h] # hpc[h])
               => \/ hpc[h] = "fetch" /\ hpc'[h] = "body"
                     /\ healthCache' = healthCache
                  \/ /\ hpc'[h] = "returned"
                     /\ houtcome'[h] \in {"2xx"} \cup ProbeFailures
                     /\ ~healthCache'.isNull
                     /\ healthCache'.timestamp = now'
                     /\ healthCache' = hresult'[h].value
                     /\ houtcome'[h] \in ProbeFailures
                           => ~healthCache'.healthy]_vars
    /\ [](\A h \in DOMAIN hpc :
            hpc[h] = "returned"
               => hentry[h] - hresult[h].value.timestamp < 60000)

\* a healthy status went stale, and the failed probe of a later call has
\* replaced it
C9_Witness ==
    \E g, h \in DOMAIN hpc :
        /\ hresult[g].kind = "returned" /\ hresult[g].value.healthy
        /\ hentry[h] >= hresult[g].value.timestamp + 60000
        /\ hpc[h] = "returned" /\ houtcome[h] \in ProbeFailures
        /\ healthCache = hresult[h].value
        /\ ~healthCache.healthy

\* C10: checkHealth never throws; when its probe fails (timeout, network
\* error, non-2xx answer, malformed body) it returns a status with healthy =
\* false and the reason in its error field.
C10_CheckHealthNeverThrows ==
    \A h \in DOMAIN hpc :
        /\ hpc[h] # "threw"
        /\ hresult[h].kind # "threw"
        /\ houtcome[h] \in ProbeFailures
              => /\ hpc[h] = "returned"
                 /\ hresult[h].kind = "returned"
                 /\ ~hresult[h].value.isNull
                 /\ ~hresult[h].value.healthy
                 /\ hresult[h].value.error # <<>>
        /\ houtcome[h] = "timeout"
              => hresult[h].value.error = OperationAborted
        /\ houtcome[h] = "network"
              => hresult[h].value.error = FetchFailed
        /\ houtcome[h] = "non2xx"
              => hresult[h].value.error
                    = <<"H", "T", "T", "P", " ", "5", "0", "3">>

\* the four failure paths have each been taken by some call
C10_Witness ==
    /\ \E h \in DOMAIN hpc : houtcome[h] = "malformed" /\ hpc[h] = "returned"
    /\ \E h \in DOMAIN hpc :
          houtcome[h] \in {"timeout", "network", "non2xx"}
          /\ hpc[h] = "returned"

\* a call of checkHealth whose probe is in flight
Probing(h) == hpc[h] \in {"fetch", "body"}
\* a call of checkHealth that returned the status of its own probe
Probed(h) == hpc[h] = "returned" /\ houtcome[h] \in {"2xx"} \cup ProbeFailures
\* two calls that both ran their probe while the other's was not yet
\* complete
Overlapped(g, h) ==
    /\ g # h /\ Probed(g) /\ Probed(h)
    /\ hentry[g] <= hresult[h].value.timestamp
    /\ hentry[h] <= hresult[g].value.timestamp

\* C11: overlapping calls of checkHealth that find the cache empty or stale
\* are not serialised: a call that enters while another call's probe is in
\* flight issues its own probe, every completing probe writes its own
\* status over whatever the other call wrote, and once both have completed
\* the cache holds the status written by the probe that completed last.
C11_LastWriteWins ==
    /\ [][\A g \in DOMAIN hpc, h \in DOMAIN hpc :
             (/\ Probing(g) /\ hpc[h] = "idle" /\ hpc'[h] # "idle"
              /\ (healthCache.isNull
                    \/ now - healthCache.timestamp >= HEALTH_CHECK_CACHE_MS))
                => (hpc'[h] = "fetch" /\ probes' = probes + 1
                    /\ Probing(g)' /\ healthCache' = healthCache)]_vars
    /\ [][\A g \in DOMAIN hpc, h \in DOMAIN hpc :
             (g # h /\ Probed(g) /\ Probing(h) /\ hpc'[h] = "returned")
                => (/\ healthCache' = hresult'[h].value
                    /\ hresult'[g] = hresult[g]
                    /\ healthCache'.timestamp = now)]_vars
    /\ [](\A g \in DOMAIN hpc, h \in DOMAIN hpc :
             (Overlapped(g, h) /\ \A k \in DOMAIN hpc : ~Probing(k))
                => \E k \in DOMAIN hpc :
                      /\ Probed(k) /\ healthCache = hresult[k].value
                      /\ healthCache.timestamp >= hresult[g].value.timestamp
                      /\ healthCache.timestamp >= hresult[h].value.timestamp)

\* two overlapping probes completed at different times with different
\* statuses: the cache holds the later one's and not the earlier one's
C11_Witness ==
    \E g \in DOMAIN hpc, h \in DOMAIN hpc :
        /\ Overlapped(g, h)
        /\ hresult[g].value.timestamp < hresult[h].value.timestamp
        /\ hresult[g].value.healthy /\ ~hresult[h].value.healthy
        /\ healthCache = hresult[h].value
        /\ healthCache # hresult[g].value

\* the timers of fetchWithTimeout that call c has armed and not cleared
TimeoutTimers(c) == {t \in timers : t.owner = c /\ t.kind = "timeout"}

\* C20: every exit of fetchWithTimeout, by return or by throw, clears the
\* timer it armed: a timeout timer is armed only for the attempt whose fetch
\* is pending, no timer of a finished attempt stays armed, and an attempt is
\* aborted only by the timer that was armed for that very attempt.
C20_TimerClearedOnEveryExit ==
    /\ [](\A t \in timers :
             (t.kind = "timeout" /\ t.owner \in DOMAIN pc)
                => (/\ pc[t.owner] = "fetch"
                    /\ t.attempt = attempts[t.owner]
                    /\ \E x \in inflight :
                          /\ x.owner = t.owner /\ x.attempt = t.attempt
                          /\ x.start = t.armed))
    /\ [][\A c \in DOMAIN pc :
             (pc[c] = "fetch" /\ pc'[c] # "fetch") => TimeoutTimers(c)' = {}]_vars
    /\ [][\A c \in DOMAIN pc :
             (failure'[c] # failure[c] /\ failure'[c].kind = "timeout")
                => \E t \in TimeoutTimers(c) :
                      /\ t.attempt = attempts[c]
                      /\ t.deadline = t.armed + REQUEST_TIMEOUT_MS
                      /\ now >= t.deadline]_vars

\* a second attempt whose fetch returned, after a first attempt whose fetch
\* threw at 10000 ms or later: neither attempt has left a timer armed
C20_Witness ==
    \E c \in DOMAIN pc :
        /\ attempts[c] = 2 /\ pc[c] \in {"body", "errorBody"}
        /\ delays[c] = <<1000>> /\ now >= REQUEST_TIMEOUT_MS + 1000
        /\ TimeoutTimers(c) = {}

\* C18: a 2xx response whose body does not parse as JSON makes request fail
\* with the decode error itself, at once: no further attempt and no backoff
\* delay follow it, at whatever attempt it happens and whatever the text of
\* the decode error is.
C18_DecodeFailureIsNeverRetried ==
    /\ [](\A c \in DOMAIN pc :
             IsDecodeFailure(failure[c])
                => (/\ pc[c] = "rejected"
                    /\ ResponseOk(failure[c].status)
                    /\ result[c].kind = "error"
                    /\ result[c].error = failure[c].error
                    /\ result[c].error.name = "SyntaxError"
                    /\ result[c].error.attempt = attempts[c]
                    /\ ~\E t \in timers : t.owner = c))
    /\ [][\A c \in DOMAIN pc :
             (pc[c] = "body" /\ pc'[c] \notin {"body", "resolved"})
                => (/\ pc'[c] = "rejected"
                    /\ IsDecodeFailure(failure'[c])
                    /\ attempts'[c] = attempts[c]
                    /\ delays'[c] = delays[c]
                    /\ retryCount'[c] = retryCount[c])]_vars
    /\ [][\A c \in DOMAIN pc :
             IsDecodeFailure(failure[c])
                => (pc'[c] = pc[c] /\ result'[c] = result[c]
                    /\ attempts'[c] = attempts[c])]_vars

\* a decode error whose text contains "5", at an attempt that had retries
\* left, has settled the call
C18_Witness ==
    \E c \in DOMAIN pc :
        /\ pc[c] = "rejected" /\ IsDecodeFailure(failure[c])
        /\ result[c].error.message = UnexpectedTokenAt5
        /\ isRetryable(result[c].error)
        /\ attempts[c] = 2 /\ retryCount[c] = 1

\* C19: for a response that is not 2xx, the message of the error that
\* request raises is the detail of the error body when the body parses and
\* carries one, and is "API error: <status>" otherwise, that is when the
\* body carries no detail, is absent or does not parse.
C19_ErrorMessageOfNon2xx ==
    \A c \in DOMAIN pc :
        failure[c].kind = "http"
           => failure[c].error.message =
                 IF /\ failure[c].body.parses /\ failure[c].body.hasDetail
                    /\ failure[c].body.detail # <<>>
                 THEN failure[c].body.detail
                 ELSE ApiErrorMessage(failure[c].status)

(***************************************************************************)
(* resolveShopId.                                                          *)
(***************************************************************************)
\* the request that call r awaits has settled / has settled with a shop
RequestSettled(r) == pc[r] \in {"resolved", "rejected"}
GotShop(r) == pc[r] = "resolved" /\ result[r].json = "object"
\* call r of resolveShopId goes on after the await of its lookup / of its
\* registration
LookupContinues(r) == rpc[r] = "lookup" /\ rpc'[r] # "lookup"
RegistrationContinues(r) == rpc[r] = "register" /\ rpc'[r] # "register"

\* C14: one call of resolveShopId calls getShop at most once and
\* registerShop at most once; it calls registerShop only when its lookup
\* has settled, after all the retries of request, without a shop; and when
\* the lookup settles with a shop, that shop's id is returned and no
\* registration request is sent.
C14_LookupThenAtMostOneRegistration ==
    /\ [](\A r \in DOMAIN rpc :
             /\ lookups[r] <= 1 /\ registers[r] <= 1
             /\ registers[r] = 1 => (lookups[r] = 1 /\ rlookup[r].kind # "none")
             /\ rpc[r] \in {"idle", "lookup"}
                   => (registers[r] = 0 /\ req[r].name # "registerShop"))
    /\ [][\A r \in DOMAIN rpc :
             (\/ registers'[r] # registers[r]
              \/ (req'[r].name = "registerShop"
                     /\ req[r].name # "registerShop"))
                => (/\ rpc[r] = "lookup" /\ RequestSettled(r) /\ ~GotShop(r)
                    /\ ~\E x \in inflight : x.owner = r
                    /\ ~\E t \in timers : t.owner = r
                    /\ registers'[r] = 1)]_vars
    /\ [][\A r \in DOMAIN rpc :
             (LookupContinues(r) /\ GotShop(r))
                => (/\ rpc'[r] = "returned"
                    /\ rresult'[r] = [kind |-> "id", id |-> result[r].id]
                    /\ result[r].id = backend.id /\ backend.id # ""
                    /\ registers'[r] = 0 /\ req'[r] = getShop(ShopDomain)
                    /\ pc'[r] = "idle")]_vars
    /\ [][\A r \in DOMAIN rpc :
             rpc[r] = "returned" => (rpc'[r] = "returned" /\ pc'[r] = "idle"
                                     /\ rresult'[r] = rresult[r])]_vars

\* a lookup that succeeded: the id is returned and nothing was registered
C14_Witness ==
    \E r \in DOMAIN rpc :
        /\ rpc[r] = "returned" /\ rresult[r] = [kind |-> "id", id |-> "uuid-1"]
        /\ lookups[r] = 1 /\ registers[r] = 0
        /\ req[r].name = "getShop"

\* the ways in which the lookup of resolveShopId fails
LookupFailureKinds == {"http", "timeout", "network", "decode", "null"}

\* C15: whatever makes the lookup of resolveShopId fail (a 404, another
\* 4xx, a 5xx, a timeout, a network failure, a body that is not a shop),
\* registerShop is called with the domain, the access token and the scopes
\* (process.env.SCOPES, or "read_products,read_orders" when it is not set),
\* and when the registration succeeds the id of the registered shop is
\* returned.
C15_EveryLookupFailureRegisters ==
    /\ [][\A r \in DOMAIN rpc :
             (LookupContinues(r) /\ ~GotShop(r))
                => (/\ rpc'[r] = "register" /\ pc'[r] = "fetch"
                    /\ attempts'[r] = 1 /\ retryCount'[r] = 0
                    /\ rlookup'[r].kind \in LookupFailureKinds
                    /\ req'[r].method = "POST"
                    /\ req'[r].path = "/api/shops"
                    /\ req'[r].body =
                          [domain |-> ShopDomain, access_token |-> AccessToken,
                           scopes |-> IF env = ""
                                      THEN "read_products,read_orders"
                                      ELSE env])]_vars
    /\ [][\A r \in DOMAIN rpc :
             (RegistrationContinues(r) /\ GotShop(r))
                => (/\ rpc'[r] = "returned"
                    /\ rresult'[r] = [kind |-> "id", id |-> result[r].id]
                    /\ result[r].id = backend.id /\ backend.id # "")]_vars
    /\ [](\A r \in DOMAIN rpc :
             rlookup[r].kind # "none" => registers[r] = 1)

\* a lookup that failed with a 500 after its retries, with SCOPES set, and
\* the id of the registration that followed
C15_Witness ==
    \E r \in DOMAIN rpc :
        /\ rlookup[r] = [kind |-> "http", status |-> 500,
                         attempts |-> MAX_RETRIES + 1, delays |-> MAX_RETRIES]
        /\ now >= 7000 /\ env # ""
        /\ rpc[r] = "returned" /\ rresult[r] = [kind |-> "id", id |-> "uuid-1"]
        /\ req[r].body.scopes = env

\* C16: resolveShopId never throws and never rejects: it returns an id or
\* null, and it returns null when the registration that followed a failed
\* lookup fails too, whatever the two failures are.
C16_ResolveShopIdNeverThrows ==
    /\ [](\A r \in DOMAIN rpc :
             /\ rpc[r] \in {"idle", "lookup", "register", "returned"}
             /\ rresult[r].kind \in {"none", "id", "null"}
             /\ (rpc[r] = "returned") <=> (rresult[r].kind # "none")
             /\ rresult[r].kind = "null"
                   => (rresult[r].id = "" /\ registers[r] = 1
                       /\ rlookup[r].kind \in LookupFailureKinds))
    /\ [][\A r \in DOMAIN rpc :
             (RegistrationContinues(r) /\ ~GotShop(r))
                => (/\ rpc'[r] = "returned"
                    /\ rresult'[r] = [kind |-> "null", id |-> ""])]_vars

\* null after a lookup that lost its connection four times and a
\* registration that failed
C16_Witness ==
    \E r \in DOMAIN rpc :
        /\ rpc[r] = "returned" /\ rresult[r] = [kind |-> "null", id |-> ""]
        /\ rlookup[r].kind = "network" /\ now >= 7000
        /\ registers[r] = 1

\* C17: with a backend whose registration is idempotent, two calls of
\* resolveShopId for the same domain, one after the other or overlapping,
\* that both return an id return the same id: the one the backend has for
\* the domain.
C17_ResolutionIsIdempotent ==
    \A r1 \in DOMAIN rpc, r2 \in DOMAIN rpc :
        (rresult[r1].kind = "id" /\ rresult[r2].kind = "id")
           => (/\ rresult[r1].id = rresult[r2].id
               /\ rresult[r1].id = backend.id
               /\ backend.id # "")

\* one call returned the id it looked up, the other the id it registered
C17_Witness ==
    \E r1 \in DOMAIN rpc, r2 \in DOMAIN rpc :
        /\ r1 # r2
        /\ rresult[r1].kind = "id" /\ registers[r1] = 1
        /\ rresult[r2].kind = "id" /\ registers[r2] = 0
        /\ rresult[r1].id = rresult[r2].id

(***************************************************************************)
(* createApiClient and the health check.                                   *)
(***************************************************************************)
\* C12: the health check gates nothing. createApiClient hands out a
\* configured client whatever status its health check returned; no step of
\* request or of resolveShopId writes the health cache; and a loader that
\* has its client can start its resolution whatever the cache holds, a
\* fresh healthy=false status included.
C12_HealthNeverGatesARequest ==
    /\ [](\A l \in DOMAIN client : client[l] \in {"none", "creating", "ready"})
    /\ [][\A l \in DOMAIN client :
             (client[l] = "creating" /\ hpc[HealthCallOf(l)] = "returned"
                /\ client'[l] # client[l])
                => client'[l] = "ready"]_vars
    /\ [][(requestVars' # requestVars \/ resolverVars' # resolverVars
             \/ req' # req)
            => (healthCache' = healthCache /\ hresult' = hresult
                /\ probes' = probes /\ hpc' = hpc)]_vars
    /\ [](\A l \in DOMAIN client :
             (client[l] = "ready" /\ rpc[l] = "idle")
                => ENABLED LoaderResolves(l))

\* the cache holds a healthy=false status that is still fresh, the client
\* was handed out, and the resolution made with it has returned an id
C12_Witness ==
    \E l \in DOMAIN client :
        /\ client[l] = "ready"
        /\ CacheValid(healthCache, now) /\ ~healthCache.healthy
        /\ houtcome[HealthCallOf(l)] \in ProbeFailures
        /\ rresult[l].kind = "id"

\* C13: createApiClient does not wait for its health check: while the probe
\* of the health check is in flight the client has been handed to the
\* loader, which can go on to resolveShopId and to its data requests.
C13_ClientCreationDoesNotWaitForProbe ==
    \A l \in DOMAIN client :
        hpc[HealthCallOf(l)] \in {"fetch", "body"} => client[l] = "ready"

(***************************************************************************)
(* The retry test of request, as the code makes it.                        *)
(***************************************************************************)
\* the catch block of request was entered in this step by call c
CatchEntered(c) ==
    /\ failure'[c] # failure[c]
    /\ failure'[c].kind \in {"timeout", "network", "http"}

C26_CallReturnsItsOwnStatus ==
    /\ [][\A h \in DOMAIN hpc :
             (hpc[h] = "idle" /\ hpc'[h] = "returned")
                => (/\ ~healthCache.isNull
                    /\ now - healthCache.timestamp < HEALTH_CHECK_CACHE_MS
                    /\ hresult'[h].value = healthCache
                    /\ houtcome'[h] = "cached")]_vars
    /\ [][\A h \in DOMAIN hpc :
             (hpc[h] \in {"fetch", "body"} /\ hpc'[h] = "returned")
                => (/\ hresult'[h].value.timestamp = now
                    /\ ~hresult'[h].value.isNull
                    /\ houtcome'[h] \in {"2xx"} \cup ProbeFailures
                    /\ (houtcome'[h] = "2xx") <=> (hpc[h] = "body"
                                                  /\ hresult'[h].value.error = <<>>)
                    /\ houtcome'[h] \in ProbeFailures
                          => (/\ ~hresult'[h].value.healthy
                              /\ hresult'[h].value.error # <<>>)
                    /\ houtcome'[h] = "timeout"
                          => now = hentry[h] + 5000)]_vars
    /\ [][\A h \in DOMAIN hpc :
             hpc[h] = "returned" => hresult'[h] = hresult[h]]_vars

\* two overlapping calls: the first completed with a failure and the second
\* later with a healthy status; the first has returned its own failure and
\* the cache holds the second's status
C26_Witness ==
    \E g \in DOMAIN hpc, h \in DOMAIN hpc :
        /\ g # h
        /\ houtcome[g] = "network" /\ houtcome[h] = "2xx"
        /\ hentry[h] <= hresult[g].value.timestamp
        /\ hresult[g].value.timestamp < hresult[h].value.timestamp
        /\ hresult[g].value.error = FetchFailed
        /\ hresult[h].value.healthy /\ healthCache = hresult[h].value

\* C28: a health cache that holds a status is never emptied again, and
\* every write stamps the status with the time of the write, the moment the
\* probe completed: as the clock does not go back, the timestamp of the
\* cached status never decreases, however the calls interleave.
C28_CacheTimestampNeverDecreases ==
    /\ [][now' >= now]_vars
    /\ [][~healthCache.isNull
            => (/\ ~healthCache'.isNull
                /\ healthCache'.timestamp >= healthCache.timestamp)]_vars
    /\ [][healthCache' # healthCache
            => (~healthCache'.isNull /\ healthCache'.timestamp = now
                /\ now' = now)]_vars
    /\ [](~healthCache.isNull => healthCache.timestamp <= now)

\* a probe that started before another one and completed after it has
\* written the cache last, with the later time
C28_Witness ==
    \E g \in DOMAIN hpc, h \in DOMAIN hpc :
        /\ Overlapped(g, h)
        /\ hentry[g] = 0 /\ hentry[h] = 0
        /\ houtcome[g] = "timeout" /\ houtcome[h] # "timeout"
        /\ hresult[h].value.timestamp < hresult[g].value.timestamp
        /\ healthCache.timestamp = 5000

\* C29: the health cache is one cell for all ApiClient instances, whatever
\* their base URL: a call of checkHealth made within 60000 ms of a write
\* returns the cached status also when an instance with another base URL
\* wrote it, and sends no probe to the base URL of its own instance.
C29_CacheIsSharedByAllInstances ==
    /\ [][\A h \in DOMAIN hpc :
             (/\ hpc[h] = "idle" /\ hpc'[h] # "idle"
              /\ ~healthCache.isNull
              /\ now - healthCache.timestamp < HEALTH_CHECK_CACHE_MS)
                => (/\ hpc'[h] = "returned"
                    /\ hresult'[h].value = healthCache
                    /\ inflight' = inflight /\ probes' = probes
                    /\ timers' = timers)]_vars
    /\ [](\A h \in DOMAIN hpc :
             houtcome[h] = "cached"
                => (/\ ~\E x \in inflight : x.owner = h
                    /\ \E g \in DOMAIN hpc :
                          /\ g # h /\ houtcome[g] \in {"2xx"} \cup ProbeFailures
                          /\ hresult[g].value = hresult[h].value))

\* a call on an instance with one base URL has returned the status that the
\* probe of an instance with another base URL cached, and no call has
\* probed the first base URL
C29_Witness ==
    \E g \in DOMAIN hpc, h \in DOMAIN hpc :
        /\ BaseUrlOf(g) # BaseUrlOf(h)
        /\ houtcome[h] = "cached" /\ Probed(g)
        /\ hresult[h].value = hresult[g].value
        /\ \A k \in DOMAIN hpc :
              BaseUrlOf(k) = BaseUrlOf(h)
                 => (houtcome[k] \in {"none", "cached"}
                     /\ hpc[k] \in {"idle", "returned"})

(***************************************************************************)
(* Retries of calls that are not safe to repeat.                           *)
(***************************************************************************)
\* C25: request retries a POST as it retries a GET. An attempt that ends
\* in a timeout or a network failure is followed by another one exactly
\* when retryCount is below MAX_RETRIES, whatever the method and whether or
\* not the backend had received the attempt; the retry sends the same
\* request; so the backend can receive one logical call once per attempt,
\* up to MAX_RETRIES + 1 = 4 times.
C25_PostIsRetriedLikeGet ==
    /\ [](\A c \in DOMAIN delivered :
            /\ delivered[c] \subseteq 1..attempts[c]
            /\ Cardinality(delivered[c]) <= MAX_RETRIES + 1)
    /\ [][\A c \in DOMAIN delivered :
            /\ (pc[c] = "fetch" /\ pc'[c] \in {"sleep", "rejected"})
                 => /\ failure'[c].kind \in {"timeout", "network"}
                    /\ pc'[c] = "sleep" <=> retryCount[c] < MAX_RETRIES
            /\ (pc[c] = "sleep" /\ pc'[c] = "fetch")
                 => /\ attempts'[c] = attempts[c] + 1
                    /\ req'[c] = req[c]]_vars

\* a POST that was received four times: each attempt reached the backend
\* and then ran into its timeout
C25_Witness ==
    \E c \in DOMAIN delivered :
        /\ req[c].method = "POST" /\ req[c].name = "dismissInsight"
        /\ pc[c] = "rejected" /\ failure[c].kind = "timeout"
        /\ delays[c] = RETRY_DELAYS
        /\ delivered[c] = 1..4
        /\ now >= 47000

(***************************************************************************)
(* The page loaders.                                                       *)
(***************************************************************************)
\* a data request that gave the loader the JSON object of a 2xx answer
Succeeded(c) == pc[c] = "resolved" /\ result[c].json = "object"
DashboardCalls(l) == {StatsCallOf(l), ChartCallOf(l), InsightsCallOf(l)}

\* C22: the dashboard loader issues its stats, revenue-chart and insights
\* requests in one step, and goes on only when all three have settled; it
\* then returns (it does not throw), and each of stats, revenueChart and
\* insights holds the data of its request exactly when that request
\* succeeded, whatever became of the other two.
C22_EachFieldFromItsOwnRequest ==
    [][\A l \in DOMAIN lpc :
          page[l] = "dashboard" =>
            /\ (lpc[l] = "idle" /\ lpc'[l] = "data")
                 => \A c \in DashboardCalls(l) :
                       /\ pc[c] = "idle" /\ pc'[c] = "fetch"
                       /\ attempts'[c] = 1
                       /\ \E x \in inflight' : x.owner = c /\ x.start = now
            /\ (lpc[l] = "data" /\ lpc'[l] # "data")
                 => /\ \A c \in DashboardCalls(l) :
                          pc[c] \in {"resolved", "rejected"}
                    /\ lpc'[l] = "returned"
                    /\ pageData'[l].stats = "object"
                         <=> Succeeded(StatsCallOf(l))
                    /\ pageData'[l].chart = "object"
                         <=> Succeeded(ChartCallOf(l))
                    /\ pageData'[l].insights = "items"
                         <=> Succeeded(InsightsCallOf(l))]_vars

\* the revenue-chart request failed, and the loader has returned the stats
\* and the insights of the two requests that succeeded
C22_Witness ==
    \E l \in DOMAIN lpc :
        /\ page[l] = "dashboard" /\ lpc[l] = "returned"
        /\ Succeeded(StatsCallOf(l)) /\ Succeeded(InsightsCallOf(l))
        /\ pc[ChartCallOf(l)] = "rejected"
        /\ pageData[l].stats = "object" /\ pageData[l].insights = "items"
        /\ pageData[l].chart = "null"
        /\ pageData[l].error = "" /\ ~pageData[l].backendDown

\* C23: when resolveShopId has returned null, the loader of the dashboard,
\* of the insights page and of the analytics page makes no data request
\* (its calls of getDashboardStats, getRevenueChart and getInsights are
\* never started), and it returns its data object as it was initialised,
\* with the notice that the shop could not be registered added to it.
C23_NoDataRequestWithoutShopId ==
    \A l \in DOMAIN lpc :
        (rpc[l] = "returned" /\ rresult[l].kind = "null")
          => /\ lpc[l] \in {"idle", "returned"}
             /\ \A c \in DataCallsOfPage(l, "dashboard") :
                   /\ pc[c] = "idle" /\ attempts[c] = 0
                   /\ req[c].path = ""
                   /\ \A x \in inflight : x.owner # c
             /\ lpc[l] = "idle" => pageData[l] = Defaults(page[l])
             /\ lpc[l] = "returned"
                  => pageData[l] = [Defaults(page[l]) EXCEPT
                                      !.error = NotRegistered]

\* lookup and registration have failed, and the loader of the insights
\* page has returned the notice and no insights
C23_Witness ==
    \E l \in DOMAIN lpc :
        /\ page[l] = "insights" /\ lpc[l] = "returned"
        /\ rpc[l] = "returned" /\ rresult[l].kind = "null"
        /\ pageData[l].error = NotRegistered
        /\ pageData[l].insights = "empty"
        /\ attempts[InsightsCallOf(l)] = 0

\* C30: in the dashboard loader, when no data request was answered 2xx
\* with a body that is not a JSON object, nothing reaches the catch block:
\* the loader returns, backendDown is false whatever became of the probe,
\* of the lookup, of the registration and of the data requests, and the
\* only notice the result can carry is the one for a shop id that could
\* not be resolved: with a shop id, failed data requests leave no notice.
C30_BackendFailureNeverReachesCatch ==
    \A l \in DOMAIN lpc :
        page[l] = "dashboard"
          => /\ lpc[l] # "threw"
             /\ (/\ lpc[l] = "returned"
                 /\ \A c \in DashboardCalls(l) :
                       pc[c] = "resolved" => result[c].json = "object")
                  => /\ ~pageData[l].backendDown
                     /\ pageData[l].error
                          = IF NoShopId(rresult[l]) THEN NotRegistered ELSE ""

\* the probe has failed and so have all three data requests: the loader
\* has returned its defaults, without a notice and with backendDown false
C30_Witness ==
    \E l \in DOMAIN lpc :
        /\ page[l] = "dashboard" /\ lpc[l] = "returned"
        /\ healthCache # NullStatus /\ ~healthCache.healthy
        /\ rresult[l].kind = "id"
        /\ \A c \in DashboardCalls(l) : pc[c] = "rejected"
        /\ \E c \in DashboardCalls(l) : failure[c].kind = "http"
        /\ \E c \in DashboardCalls(l) : failure[c].kind = "decode"
        /\ pageData[l] = Defaults("dashboard")

(***************************************************************************)
(* Termination.                                                            *)
(***************************************************************************)
\* the attempts and the backoff delays of a call of resolveShopId so far:
\* those of its lookup, and those of its registration once it has begun
UpstreamAttempts(r) ==
    IF rpc[r] = "register" THEN rlookup[r].attempts + attempts[r]
    ELSE attempts[r]
BackoffDelays(r) ==
    IF rpc[r] = "register" THEN rlookup[r].delays + Len(delays[r])
    ELSE Len(delays[r])

\* C27: when time passes, due timers fire and body reads complete, every
\* call of checkHealth, of request and of resolveShopId that was made comes
\* to its end, returning or throwing; and a call of resolveShopId makes at
\* most 2 * (MAX_RETRIES + 1) = 8 attempts upstream and waits for at most
\* 2 * MAX_RETRIES = 6 backoff delays.
C27_EveryCallEnds ==
    /\ [](\A r \in DOMAIN rpc :
            /\ UpstreamAttempts(r) <= 8
            /\ BackoffDelays(r) <= 6)
    /\ \A l \in Loaders :
          /\ (hpc[HealthCallOf(l)] # "idle")
               ~> (hpc[HealthCallOf(l)] \in {"returned", "threw"})
          /\ (pc[l] # "idle") ~> (pc[l] \in {"resolved", "rejected"})
          /\ (rpc[l] # "idle") ~> (rpc[l] \in {"returned", "threw"})

\* the registration has failed for the last time: with the lookup before
\* it the call of resolveShopId has made 8 attempts and waited 6 times
C27_Witness ==
    \E r \in DOMAIN rpc :
        /\ rpc[r] = "register" /\ pc[r] = "rejected"
        /\ UpstreamAttempts(r) = 8 /\ BackoffDelays(r) = 6
        /\ hpc[HealthCallOf(r)] = "returned"

(***************************************************************************)
(* Formatting.                                                             *)
(***************************************************************************)
\* the three digits of m < 1000, with leading zeros
Pad3(m) ==
    <<DigitChar(m \div 100), DigitChar((m \div 10) % 10), DigitChar(m % 10)>>

\* the digits of n >= 0 in groups of three counted from the right, with a
\* comma between two groups
RECURSIVE Grouped(_)
Grouped(n) ==
    IF n < 1000 THEN StatusString(n)
    ELSE Grouped(n \div 1000) \o <<",">> \o Pad3(n % 1000)

====
